---- MODULE Spec2Model ----
(***************************************************************************)
(* A model of cpp/src/parquet/arrow/writer.cc: the level builder, the      *)
(* per-type materializer and the timestamp policy of ArrowColumnWriter.    *)
(*                                                                         *)
(* An Arrow array is a sequence of layers, outermost first: zero or more   *)
(* list layers followed by one flat (leaf) layer.  C++ vectors and buffers *)
(* are 0-based; TLA+ sequences are 1-based, so element i of a vector v is  *)
(* v[i + 1] (operator At).                                                 *)
(***************************************************************************)
EXTENDS Integers, Sequences, FiniteSets, TLC

VARIABLES
    data,        \* the Array handed to ArrowColumnWriter::Write(const Array&)
    field_,      \* ArrowColumnWriter::field_: the path of the column's Field
    properties,  \* ctx_->properties (ArrowWriterProperties)
    writer_,     \* ArrowColumnWriter::writer_: version and schema node of the column
    pc,          \* "ready" before the call, "levels" once the levels are built, "done" after it returned
    status,      \* the Status the call returned
    levels,      \* what GenerateLevels handed back to Write
    dispatch,    \* the member function Write dispatched to, with its properties argument
    calls,       \* the calls the underlying ColumnWriter received, in order
    chunked,     \* the frame of Write(const ChunkedArray&, offset, size), if one runs
    file         \* FileWriter::Impl and the frame of WriteTable, if one runs

vars == <<data, field_, properties, writer_, pc, status, levels, dispatch, calls,
          chunked, file>>

RECURSIVE VisitInline(_, _)
RECURSIVE HandleList(_, _, _, _)
RECURSIVE HandleNonNullList(_, _, _, _)
RECURSIVE HandleListEntries(_, _, _, _, _)
RECURSIVE HandleListEntriesLoop(_, _, _, _, _, _)

(***************************************************************************)
(* Bounds of the model.                                                    *)
(***************************************************************************)
\* entries of a list array (of nesting depth 1) inside the written slice
MaxLen == 2
\* length of a flat array, and of the leaf of a list array of depth 1
MaxLeaf == 2
\* array offsets of the slices that are enumerated
SliceOffsets == {0, 1}
\* length of a timestamp array
MaxTs == 2
\* chunks of a chunked array, and length of a chunk
MaxChunks == 3
MaxChunkLen == 2
\* rows and columns of a table, and calls of FileWriter::Close
MaxRows == 2
MaxColumns == 2
MaxCloses == 3
\* rows of the table of a session of calls
SessionRows == {1, 2}
\* max_row_group_length of the writer properties
RowGroupLengths == {2, 8}
\* list of lists: entries of the outer slice, entries of the inner list array,
\* length of the leaf
NestedLens == 0..2
NestedMid == 0..2
NestedLeaf == 0..2

(***************************************************************************)
(* arrow::Array, as the writer uses it.                                    *)
(***************************************************************************)
At(v, i) == v[i + 1]

Pad(k, x) == [i \in 1..k |-> x]

Min(a, b) == IF a < b THEN a ELSE b

GetBit(bits, i) == bits[i + 1]

\* the validity bitmap pointer: has = FALSE is nullptr
null_bitmap_data(a) == [has |-> a.has_bitmap, bits |-> a.null_bitmap]

\* ListArray::raw_value_offsets(): the offsets buffer advanced by the array offset
raw_value_offsets(a) == SubSeq(a.value_offsets, a.offset + 1, Len(a.value_offsets))

\* ListArray::value_offset(i)
value_offset(a, i) == a.value_offsets[a.offset + i + 1]

\* Array::IsNull(i)
IsNull(a, i) == a.has_bitmap /\ ~GetBit(a.null_bitmap, i + a.offset)

\* the number of unset validity bits of the slots [off, off + len)
CountNulls(bits, off, len) == Cardinality({i \in 0..(len - 1) : ~GetBit(bits, off + i)})

\* PrimitiveArray::raw_values(): the values buffer advanced by the array offset
raw_values(a) == SubSeq(a.values, a.offset + 1, a.offset + a.length)

\* Array::Slice(off, len); the null count of the slice is recounted
Slice(a, off, len) ==
    LET n == Min(len, a.length - off)
    IN  [a EXCEPT !.offset = a.offset + off,
                  !.length = n,
                  !.null_count = IF a.type = "NA" THEN n
                                 ELSE IF a.has_bitmap
                                      THEN CountNulls(a.null_bitmap, a.offset + off, n)
                                      ELSE 0]

(***************************************************************************)
(* The arrays that are enumerated.  A slot before the array offset holds   *)
(* an unset validity bit and the list offset 0, so that a read that        *)
(* forgets the array offset is seen.  The value stored at physical slot p  *)
(* is ValueAt(type, p), null slots included.                               *)
(***************************************************************************)
MsPerDay == 86400000

ValueAt(type, p) ==
    CASE type = "DATE64" -> MsPerDay * (p + 1)
      [] type = "BOOL" -> (p % 2 = 0)
      [] type = "DECIMAL" -> IF p % 2 = 0 THEN 123456789 + p ELSE -(p + 1)
      [] OTHER -> p + 1

MkFlat(type, unit, off, len, has, bits, vals) ==
    [type |-> type, unit |-> unit, precision |-> IF type = "DECIMAL" THEN 9 ELSE 0,
     num_children |-> 0, offset |-> off, length |-> len,
     has_bitmap |-> has,
     null_bitmap |-> IF has THEN Pad(off, FALSE) \o bits ELSE <<>>,
     null_count |-> IF type = "NA" THEN len
                    ELSE IF has THEN CountNulls(bits, 0, len) ELSE 0,
     value_offsets |-> <<>>,
     values |-> vals]

MkList(off, len, has, bits, offs) ==
    [type |-> "LIST", unit |-> "NONE", precision |-> 0,
     num_children |-> 1, offset |-> off, length |-> len,
     has_bitmap |-> has,
     null_bitmap |-> IF has THEN Pad(off, FALSE) \o bits ELSE <<>>,
     null_count |-> IF has THEN CountNulls(bits, 0, len) ELSE 0,
     value_offsets |-> Pad(off, 0) \o offs,
     values |-> <<>>]

\* a struct array of the given number of fields, without nulls; the array that
\* follows it in the sequence is its first field
MkStruct(children, len) ==
    [type |-> "STRUCT", unit |-> "NONE", precision |-> 0,
     num_children |-> children, offset |-> 0, length |-> len,
     has_bitmap |-> FALSE, null_bitmap |-> <<>>, null_count |-> 0,
     value_offsets |-> <<>>, values |-> <<>>]

StoredValues(type, n) == [p \in 1..n |-> ValueAt(type, p - 1)]

\* the validity bitmaps of an array of n slots: none, or any n bits
Bitmaps(n, nullable) ==
    {[has |-> FALSE, bits |-> <<>>]}
        \cup (IF nullable THEN {[has |-> TRUE, bits |-> b] : b \in [1..n -> BOOLEAN]}
              ELSE {})

\* monotonically non-decreasing list offsets: n + 1 of them, into a child of length hi
MonoSeqs(n, hi) ==
    {s \in [1..(n + 1) -> 0..hi] : \A i \in 1..n : s[i] <= s[i + 1]}

\* a Field path: nullable flag and number of children of each type on the path
MkField(flags) ==
    [i \in 1..Len(flags) |->
        [nullable |-> flags[i], num_children |-> IF i < Len(flags) THEN 1 ELSE 0]]

Fields(depth) == {MkField(f) : f \in [1..(depth + 1) -> BOOLEAN]}

(***************************************************************************)
(* LevelBuilder (writer.cc:79-273).  The builder is a record of its        *)
(* members; every method returns the builder it leaves behind.  leaf_idx_  *)
(* is a history member: the leaf position of every leaf-slot definition    *)
(* level appended, in order.                                               *)
(***************************************************************************)
NewLevelBuilder ==
    [def_levels_ |-> <<>>, rep_levels_ |-> <<>>,
     null_counts_ |-> <<>>, valid_bitmaps_ |-> <<>>, offsets_ |-> <<>>,
     array_offsets_ |-> <<>>, nullable_ |-> <<>>,
     min_offset_idx_ |-> 0, max_offset_idx_ |-> 0,
     values_array_ |-> <<>>, leaf_idx_ |-> <<>>]

\* TypedBufferBuilder<int16_t>::Append(num_copies, value)
AppendCopies(buf, num_copies, value) == buf \o Pad(num_copies, value)

\* Visit(const T&) for a FlatArray
VisitFlatArray(b, array) ==
    LET a == Head(array)
    IN  [b EXCEPT !.array_offsets_ = Append(@, a.offset),
                  !.valid_bitmaps_ = Append(@, null_bitmap_data(a)),
                  !.null_counts_ = Append(@, a.null_count),
                  !.values_array_ = <<a>>]

\* Visit(const ListArray&) with the offsets of the slice read at index i
\* (value_offset) of the list array
VisitListArrayNoOffset(b, array) ==
    LET a == Head(array)
        b1 == [b EXCEPT !.array_offsets_ = Append(@, a.offset),
                        !.valid_bitmaps_ = Append(@, null_bitmap_data(a)),
                        !.null_counts_ = Append(@, a.null_count),
                        !.offsets_ = Append(@, raw_value_offsets(a)),
                        !.min_offset_idx_ = a.value_offsets[b.min_offset_idx_ + 1],
                        !.max_offset_idx_ = a.value_offsets[b.max_offset_idx_ + 1]]
    IN  VisitInline(b1, Tail(array))

VisitListArray(b, array) ==
    LET a == Head(array)
        b1 == [b EXCEPT !.array_offsets_ = Append(@, a.offset),
                        !.valid_bitmaps_ = Append(@, null_bitmap_data(a)),
                        !.null_counts_ = Append(@, a.null_count),
                        !.offsets_ = Append(@, raw_value_offsets(a)),
                        !.min_offset_idx_ = value_offset(a, b.min_offset_idx_),
                        !.max_offset_idx_ = value_offset(a, b.max_offset_idx_)]
    IN  VisitInline(b1, Tail(array))

VisitInline(b, array) ==
    IF Head(array).type = "LIST" THEN VisitListArray(b, array)
    ELSE VisitFlatArray(b, array)

\* HandleList without the "+ 1" of a present list of a nullable layer
HandleListSameLevel(b, def_level, rep_level, index) ==
    IF At(b.nullable_, rep_level)
    THEN IF At(b.null_counts_, rep_level) = 0
            \/ GetBit(At(b.valid_bitmaps_, rep_level).bits,
                      index + At(b.array_offsets_, rep_level))
         THEN HandleNonNullList(b, def_level, rep_level, index)
         ELSE [b EXCEPT !.def_levels_ = Append(@, def_level)]
    ELSE HandleNonNullList(b, def_level, rep_level, index)

\* HandleList reading the validity bit without the array offset
HandleListNoOffset(b, def_level, rep_level, index) ==
    IF At(b.nullable_, rep_level)
    THEN IF At(b.null_counts_, rep_level) = 0
            \/ GetBit(At(b.valid_bitmaps_, rep_level).bits, index)
         THEN HandleNonNullList(b, def_level + 1, rep_level, index)
         ELSE [b EXCEPT !.def_levels_ = Append(@, def_level)]
    ELSE HandleNonNullList(b, def_level, rep_level, index)

\* HandleList that raises the definition level for a non-nullable layer too
HandleListAlwaysDeeper(b, def_level, rep_level, index) ==
    IF At(b.nullable_, rep_level)
    THEN IF At(b.null_counts_, rep_level) = 0
            \/ GetBit(At(b.valid_bitmaps_, rep_level).bits,
                      index + At(b.array_offsets_, rep_level))
         THEN HandleNonNullList(b, def_level + 1, rep_level, index)
         ELSE [b EXCEPT !.def_levels_ = Append(@, def_level)]
    ELSE HandleNonNullList(b, def_level + 1, rep_level, index)

\* HandleList (writer.cc:192-203)
HandleList(b, def_level, rep_level, index) ==
    IF At(b.nullable_, rep_level)
    THEN IF At(b.null_counts_, rep_level) = 0
            \/ GetBit(At(b.valid_bitmaps_, rep_level).bits,
                      index + At(b.array_offsets_, rep_level))
         THEN HandleNonNullList(b, def_level + 1, rep_level, index)
         ELSE [b EXCEPT !.def_levels_ = Append(@, def_level)]
    ELSE HandleNonNullList(b, def_level, rep_level, index)

\* the leaf part of HandleNonNullList with one repetition level per child
HandleLeafEntriesRepPerChild(b, def_level, rep_level, inner_offset, inner_length) ==
    LET recursion_level == rep_level + 1
        nullable_level == At(b.nullable_, recursion_level)
        level_null_count == At(b.null_counts_, recursion_level)
        level_valid_bitmap == At(b.valid_bitmaps_, recursion_level)
        b1 == [b EXCEPT !.rep_levels_ = AppendCopies(@, inner_length, rep_level + 1)]
        visited == [i \in 1..inner_length |-> inner_offset + (i - 1)]
    IN  IF level_null_count # 0 /\ ~level_valid_bitmap.has
        THEN [b1 EXCEPT !.def_levels_ = AppendCopies(@, inner_length, def_level + 1),
                        !.leaf_idx_ = @ \o visited]
        ELSE [b1 EXCEPT
                 !.def_levels_ = @ \o
                     [i \in 1..inner_length |->
                         IF nullable_level
                            /\ (level_null_count = 0
                                \/ GetBit(level_valid_bitmap.bits,
                                          inner_offset + (i - 1)
                                              + At(b.array_offsets_, recursion_level)))
                         THEN def_level + 2
                         ELSE def_level + 1],
                 !.leaf_idx_ = @ \o visited]

\* the leaf part of HandleNonNullList: the repetition levels of the siblings, then
\* one definition level per child
HandleLeafEntries(b, def_level, rep_level, inner_offset, inner_length) ==
    LET recursion_level == rep_level + 1
        nullable_level == At(b.nullable_, recursion_level)
        level_null_count == At(b.null_counts_, recursion_level)
        level_valid_bitmap == At(b.valid_bitmaps_, recursion_level)
        b1 == IF inner_length >= 1
              THEN [b EXCEPT !.rep_levels_ = AppendCopies(@, inner_length - 1, rep_level + 1)]
              ELSE b
        visited == [i \in 1..inner_length |-> inner_offset + (i - 1)]
    IN  IF level_null_count # 0 /\ ~level_valid_bitmap.has
        THEN [b1 EXCEPT !.def_levels_ = AppendCopies(@, inner_length, def_level + 1),
                        !.leaf_idx_ = @ \o visited]
        ELSE [b1 EXCEPT
                 !.def_levels_ = @ \o
                     [i \in 1..inner_length |->
                         IF nullable_level
                            /\ (level_null_count = 0
                                \/ GetBit(level_valid_bitmap.bits,
                                          inner_offset + (i - 1)
                                              + At(b.array_offsets_, recursion_level)))
                         THEN def_level + 2
                         ELSE def_level + 1],
                 !.leaf_idx_ = @ \o visited]

HandleNonNullList(b, def_level, rep_level, index) ==
    LET inner_offset == At(At(b.offsets_, rep_level), index)
        inner_length == At(At(b.offsets_, rep_level), index + 1) - inner_offset
        recursion_level == rep_level + 1
    IN  IF inner_length = 0
        THEN [b EXCEPT !.def_levels_ = Append(@, def_level)]
        ELSE IF recursion_level < Len(b.offsets_)
             THEN HandleListEntries(b, def_level + 1, rep_level + 1, inner_offset,
                                    inner_length)
             ELSE HandleLeafEntries(b, def_level, rep_level, inner_offset, inner_length)

\* iteration i of the loop of HandleListEntries, and the ones after it
HandleListEntriesLoop(b, def_level, rep_level, offset, length, i) ==
    IF i < length
    THEN LET b1 == IF i > 0 THEN [b EXCEPT !.rep_levels_ = Append(@, rep_level)] ELSE b
         IN  HandleListEntriesLoop(HandleList(b1, def_level, rep_level, offset + i),
                                   def_level, rep_level, offset, length, i + 1)
    ELSE b

HandleListEntries(b, def_level, rep_level, offset, length) ==
    HandleListEntriesLoop(b, def_level, rep_level, offset, length, 0)


\* the walk down the field that collects nullable_: the flags pushed, and whether a
\* type with more than one child was met
RECURSIVE CollectNullable(_, _)
CollectNullable(field, nullable) ==
    LET current_field == Head(field)
        pushed == Append(nullable, current_field.nullable)
    IN  IF current_field.num_children > 0
        THEN IF current_field.num_children > 1
             THEN [ok |-> FALSE, nullable_ |-> pushed]
             ELSE CollectNullable(Tail(field), pushed)
        ELSE [ok |-> TRUE, nullable_ |-> pushed]

NoLevels ==
    [values_offset |-> 0, num_values |-> 0, num_levels |-> 0,
     has_def |-> FALSE, def_levels |-> <<>>, has_rep |-> FALSE, rep_levels |-> <<>>,
     values_array |-> <<>>, leaf_idx |-> <<>>, generated |-> FALSE]

\* the definition levels of a nullable primitive array, with the array offset ignored
\* on the bitmap-reading path
PrimitiveDefLevelsNoOffset(array) ==
    IF array.null_count = 0 THEN Pad(array.length, 1)
    ELSE IF array.null_count = array.length THEN Pad(array.length, 0)
    ELSE [i \in 1..array.length |->
             IF GetBit(array.null_bitmap, i - 1) THEN 1 ELSE 0]

\* the definition levels of a nullable primitive array (writer.cc:157-168)
PrimitiveDefLevels(array) ==
    IF array.null_count = 0 THEN Pad(array.length, 1)
    ELSE IF array.null_count = array.length THEN Pad(array.length, 0)
    ELSE [i \in 1..array.length |->
             IF GetBit(array.null_bitmap, array.offset + (i - 1)) THEN 1 ELSE 0]

\* GenerateLevels with the leading repetition level 0 left out
GenerateNestedLevelsNoLeadingRep(b, array) ==
    LET b2 == HandleListEntries(b, 0, 0, 0, Head(array).length)
    IN  [has_def |-> TRUE, def_levels |-> b2.def_levels_,
         has_rep |-> TRUE, rep_levels |-> b2.rep_levels_,
         num_levels |-> Len(b2.rep_levels_), leaf_idx |-> b2.leaf_idx_]

\* the nested branch of GenerateLevels (writer.cc:181-186)
GenerateNestedLevels(b, array) ==
    LET b1 == [b EXCEPT !.rep_levels_ = Append(@, 0)]
        b2 == HandleListEntries(b1, 0, 0, 0, Head(array).length)
    IN  [has_def |-> TRUE, def_levels |-> b2.def_levels_,
         has_rep |-> TRUE, rep_levels |-> b2.rep_levels_,
         num_levels |-> Len(b2.rep_levels_), leaf_idx |-> b2.leaf_idx_]

GenerateLevels(array, field) ==
    LET b0 == [NewLevelBuilder EXCEPT !.min_offset_idx_ = 0,
                                      !.max_offset_idx_ = Head(array).length]
        b1 == VisitInline(b0, array)
        walk == CollectNullable(field, <<>>)
        b2 == [b1 EXCEPT !.nullable_ = walk.nullable_]
        base == [NoLevels EXCEPT !.num_values = b1.max_offset_idx_ - b1.min_offset_idx_,
                                 !.values_offset = b1.min_offset_idx_,
                                 !.values_array = b1.values_array_]
    IN  IF ~walk.ok THEN [status |-> "NotImplemented", out |-> base]
        ELSE IF Len(b2.nullable_) = 1
        THEN [status |-> "OK",
              out |-> [base EXCEPT
                          !.has_def = At(b2.nullable_, 0),
                          !.def_levels = IF At(b2.nullable_, 0)
                                         THEN PrimitiveDefLevels(Head(array)) ELSE <<>>,
                          !.num_levels = Head(array).length,
                          !.generated = TRUE]]
        ELSE LET n == GenerateNestedLevels(b2, array)
             IN  [status |-> "OK",
                  out |-> [base EXCEPT !.has_def = n.has_def, !.def_levels = n.def_levels,
                                       !.has_rep = n.has_rep, !.rep_levels = n.rep_levels,
                                       !.num_levels = n.num_levels,
                                       !.leaf_idx = n.leaf_idx,
                                       !.generated = TRUE]]


(***************************************************************************)
(* ArrowColumnWriter: the per-type materializer (writer.cc:376-930).  A    *)
(* call of the underlying TypedColumnWriter is recorded with the level     *)
(* pointers it was given and with the values buffer as far as the caller   *)
(* filled it; capacity is the number of elements the buffer holds.         *)
(***************************************************************************)
\* C++ integer division truncates toward zero
TruncDiv(a, b) == IF a >= 0 THEN a \div b ELSE -((-a) \div b)

\* WriteBatch<ParquetType>
WriteBatch(ParquetType, num_levels, lv, has_values, values, capacity) ==
    [method |-> "WriteBatch", type |-> ParquetType, num_levels |-> num_levels,
     has_def |-> lv.has_def, def_levels |-> lv.def_levels,
     has_rep |-> lv.has_rep, rep_levels |-> lv.rep_levels,
     has_valid_bits |-> FALSE, valid_bits |-> <<>>, valid_bits_offset |-> 0,
     has_values |-> has_values, values |-> values, capacity |-> capacity]

\* WriteBatchSpaced<ParquetType>
WriteBatchSpaced(ParquetType, num_levels, lv, valid_bits, valid_bits_offset, values, capacity) ==
    [method |-> "WriteBatchSpaced", type |-> ParquetType, num_levels |-> num_levels,
     has_def |-> lv.has_def, def_levels |-> lv.def_levels,
     has_rep |-> lv.has_rep, rep_levels |-> lv.rep_levels,
     has_valid_bits |-> valid_bits.has, valid_bits |-> valid_bits.bits,
     valid_bits_offset |-> valid_bits_offset,
     has_values |-> TRUE, values |-> values, capacity |-> capacity]

\* the (ParquetType, ArrowType) pairs of NONNULLABLE_BATCH_FAST_PATH and
\* NULLABLE_BATCH_FAST_PATH: the values pointer is passed on as it is
FastPath ==
    {<<"Int32Type", "INT32">>, <<"Int32Type", "DATE32">>, <<"Int64Type", "INT64">>,
     <<"Int64Type", "TIME64">>, <<"FloatType", "FLOAT">>, <<"DoubleType", "DOUBLE">>,
     <<"Int64Type", "TIMESTAMP">>}

\* Impala's Int96 image of a timestamp (internal::...ToImpalaTimestamp)
ImpalaTimestamp(unit, v) == <<"Int96", unit, v>>

\* the element conversion of WriteNonNullableBatch / WriteNullableBatch
ConvertValue(ParquetType, type, v) ==
    CASE ParquetType = "Int96Type" -> ImpalaTimestamp(type.unit, v)
      [] type.type = "DATE64" -> TruncDiv(v, MsPerDay)
      [] type.type = "TIME32" /\ type.unit = "SECOND" -> v * 1000
      [] OTHER -> v

\* the number of elements GetScratchData is asked for by the dense writers
NonNullableScratch(ParquetType, type, num_values, num_levels) ==
    IF type.type \in {"DATE64", "TIME32"} /\ ParquetType = "Int32Type"
    THEN num_levels ELSE num_values

WriteNonNullableBatch(ParquetType, type, num_values, num_levels, lv, values) ==
    IF <<ParquetType, type.type>> \in FastPath
    THEN WriteBatch(ParquetType, num_levels, lv, TRUE, values, Len(values))
    ELSE WriteBatch(ParquetType, num_levels, lv, TRUE,
                    [i \in 1..num_values |-> ConvertValue(ParquetType, type, values[i])],
                    NonNullableScratch(ParquetType, type, num_values, num_levels))

\* WriteNullableBatch that packs the present values and drops the null slots
WriteNullableBatchPacked(ParquetType, type, num_values, num_levels, lv, valid_bits, valid_bits_offset, values) ==
    LET present == SelectSeq([i \in 1..num_values |-> i],
                             LAMBDA i : GetBit(valid_bits.bits, valid_bits_offset + i - 1))
    IN  WriteBatchSpaced(ParquetType, num_levels, lv, valid_bits, valid_bits_offset,
                         [k \in 1..Len(present) |->
                             ConvertValue(ParquetType, type, values[present[k]])],
                         num_values)

WriteNullableBatch(ParquetType, type, num_values, num_levels, lv, valid_bits, valid_bits_offset, values) ==
    IF <<ParquetType, type.type>> \in FastPath
    THEN WriteBatchSpaced(ParquetType, num_levels, lv, valid_bits, valid_bits_offset,
                          values, Len(values))
    ELSE WriteBatchSpaced(ParquetType, num_levels, lv, valid_bits, valid_bits_offset,
                          [i \in 1..num_values |->
                              ConvertValue(ParquetType, type, values[i])],
                          num_values)

\* the test of the dense path with "and" for "or"
NoNullsBoth(w, array) == w.is_required /\ array.null_count = 0

\* the test that selects the dense path (writer.cc:448)
NoNulls(w, array) == w.is_required \/ array.null_count = 0

\* the generic TypedWriteBatch<ParquetType, ArrowType> (writer.cc:433-460)
TypedWriteBatch(ParquetType, array, num_levels, lv, w) ==
    LET values == raw_values(array)
    IN  IF NoNulls(w, array)
        THEN <<WriteNonNullableBatch(ParquetType, array, array.length, num_levels, lv,
                                     values)>>
        ELSE <<WriteNullableBatch(ParquetType, array, array.length, num_levels, lv,
                                  null_bitmap_data(array), array.offset, values)>>

\* the slots of the array whose value is copied by a loop that skips nulls
NonNullSlots(array) ==
    SelectSeq([i \in 1..array.length |-> i - 1], LAMBDA i : ~IsNull(array, i))

AllSlots(array) == [i \in 1..array.length |-> i - 1]

\* TypedWriteBatch<BooleanType, BooleanType>
TypedWriteBatchBool(array, num_levels, lv, w) ==
    LET slots == NonNullSlots(array)
    IN  <<WriteBatch("BooleanType", num_levels, lv, TRUE,
                     [k \in 1..Len(slots) |-> GetBit(array.values, array.offset + slots[k])],
                     array.length)>>

\* TypedWriteBatch<Int32Type, NullType>
TypedWriteBatchNull(array, num_levels, lv, w) ==
    <<WriteBatch("Int32Type", num_levels, lv, FALSE, <<>>, 0)>>

\* TypedWriteBatch<ByteArrayType, BinaryType> and
\* TypedWriteBatch<FLBAType, FixedSizeBinaryType>: one entry per slot written,
\* the entry being the bytes of the slot
TypedWriteBatchBinary(ParquetType, array, num_levels, lv, w) ==
    LET slots == IF NoNulls(w, array) THEN AllSlots(array) ELSE NonNullSlots(array)
    IN  <<WriteBatch(ParquetType, num_levels, lv, TRUE,
                     [k \in 1..Len(slots) |-> array.values[array.offset + slots[k] + 1]],
                     num_levels)>>


\* DecimalSize(precision): the bytes that hold any decimal of that many digits
DecimalSize(precision) ==
    <<1, 1, 2, 2, 3, 3, 4, 4, 4, 5, 5, 6, 6, 6, 7, 7, 8, 8>>[precision]

\* Decimal128Type::byte_width()
DecimalByteWidth == 16

RECURSIVE ShiftRight8(_, _)
ShiftRight8(d, k) == IF k = 0 THEN d ELSE ShiftRight8(d \div 256, k - 1)

\* byte k (0 the least significant) of the two's complement image of d
ByteOf(d, k) == ShiftRight8(d, k) % 256

\* the 64-bit limb j of a Decimal128 as it lies in memory (little-endian):
\* limb 0 holds the low bits
Limb(d, j) == [k \in 1..8 |-> ByteOf(d, 8 * j + (k - 1))]

\* BitUtil::ToBigEndian of a 64-bit limb, as bytes in memory
ToBigEndian(limb) == [k \in 1..8 |-> limb[9 - k]]

\* the FixedLenByteArray of one decimal: pointer into big_endian_values plus offset
DecimalFLBA(d, precision) ==
    LET big_endian_values == ToBigEndian(Limb(d, 1)) \o ToBigEndian(Limb(d, 0))
        offset == DecimalByteWidth - DecimalSize(precision)
    IN  SubSeq(big_endian_values, offset + 1, DecimalByteWidth)

\* TypedWriteBatch<FLBAType, Decimal128Type>
TypedWriteBatchDecimal(array, num_levels, lv, w) ==
    LET slots == IF NoNulls(w, array) THEN AllSlots(array) ELSE NonNullSlots(array)
    IN  <<WriteBatch("FLBAType", num_levels, lv, TRUE,
                     [k \in 1..Len(slots) |->
                         DecimalFLBA(array.values[array.offset + slots[k] + 1],
                                     array.precision)],
                     num_levels)>>

\* the slots of a decimal array whose image the no-nulls loop stores past the end of
\* big_endian_values: the vector holds 2 * (length - null_count) limbs
\* (writer.cc:900-901) and the loop stores limbs 2 * i and 2 * i + 1 for every slot i
DecimalOverrunSlots(array, w) ==
    IF array.type = "DECIMAL" /\ NoNulls(w, array)
    THEN {i \in 0..(array.length - 1) : 2 * i + 1 >= 2 * (array.length - array.null_count)}
    ELSE {}

\* what a store past the end of the vector can lead to: the bytes are read back as
\* they were stored, the bytes read back are others, or the process dies
UndefinedOutcomes(array, w) ==
    IF DecimalOverrunSlots(array, w) = {} THEN {"intact"}
    ELSE {"intact", "clobbered", "crash"}

\* the result of the switch of Write under one of these outcomes
UnderOutcome(r, slots, outcome) ==
    CASE outcome = "intact" -> r
      [] outcome = "crash" -> [r EXCEPT !.status = "Crashed", !.calls = <<>>]
      [] OTHER ->
           [r EXCEPT !.calls =
               <<[r.calls[1] EXCEPT !.values =
                     [k \in 1..Len(r.calls[1].values) |->
                         IF (k - 1) \in slots THEN <<"clobbered">>
                         ELSE r.calls[1].values[k]]]>>]

(***************************************************************************)
(* Timestamps (writer.cc:647-770).                                         *)
(***************************************************************************)
TimeUnits == <<"SECOND", "MILLI", "MICRO", "NANO">>

UnitIndex(unit) == CHOOSE i \in 1..4 : TimeUnits[i] = unit

\* the table with the factor of micros in the nanos-to-millis entry
kTimestampCoercionFactorsNanosShort(from, to) ==
    LET table ==
          << <<[first |-> "INVALID", second |-> 0],
               [first |-> "MULTIPLY", second |-> 1000],
               [first |-> "MULTIPLY", second |-> 1000000],
               [first |-> "MULTIPLY", second |-> 1000000000]>>,
             <<[first |-> "INVALID", second |-> 0],
               [first |-> "MULTIPLY", second |-> 1],
               [first |-> "MULTIPLY", second |-> 1000],
               [first |-> "MULTIPLY", second |-> 1000000]>>,
             <<[first |-> "INVALID", second |-> 0],
               [first |-> "DIVIDE", second |-> 1000],
               [first |-> "MULTIPLY", second |-> 1],
               [first |-> "MULTIPLY", second |-> 1000]>>,
             <<[first |-> "INVALID", second |-> 0],
               [first |-> "DIVIDE", second |-> 1000],
               [first |-> "DIVIDE", second |-> 1000],
               [first |-> "MULTIPLY", second |-> 1]>> >>
    IN  table[UnitIndex(from)][UnitIndex(to)]

\* kTimestampCoercionFactors[from][to]: .first is the operation, .second the factor
kTimestampCoercionFactors(from, to) ==
    LET table ==
          << <<[first |-> "INVALID", second |-> 0],
               [first |-> "MULTIPLY", second |-> 1000],
               [first |-> "MULTIPLY", second |-> 1000000],
               [first |-> "MULTIPLY", second |-> 1000000000]>>,
             <<[first |-> "INVALID", second |-> 0],
               [first |-> "MULTIPLY", second |-> 1],
               [first |-> "MULTIPLY", second |-> 1000],
               [first |-> "MULTIPLY", second |-> 1000000]>>,
             <<[first |-> "INVALID", second |-> 0],
               [first |-> "DIVIDE", second |-> 1000],
               [first |-> "MULTIPLY", second |-> 1],
               [first |-> "MULTIPLY", second |-> 1000]>>,
             <<[first |-> "INVALID", second |-> 0],
               [first |-> "DIVIDE", second |-> 1000000],
               [first |-> "DIVIDE", second |-> 1000],
               [first |-> "MULTIPLY", second |-> 1]>> >>
    IN  table[UnitIndex(from)][UnitIndex(to)]

\* the DivideBy lambda with the test of IsNull left out
DivideByFailsAnySlot(array, values, factor, truncation_allowed) ==
    \E i \in 0..(array.length - 1) :
        ~truncation_allowed /\ At(values, i) % factor # 0

\* the DivideBy lambda: the first slot, if any, whose value would be truncated
DivideByFails(array, values, factor, truncation_allowed) ==
    \E i \in 0..(array.length - 1) :
        ~truncation_allowed /\ ~IsNull(array, i) /\ At(values, i) % factor # 0

WriteTimestampsCoerce(array, num_levels, lv, props, w) ==
    LET values == raw_values(array)
        target_unit == props.coerce_timestamps_unit
        truncation_allowed == props.truncated_timestamps_allowed
        coercion == kTimestampCoercionFactors(array.unit, target_unit)
        target_type == [array EXCEPT !.unit = target_unit]
        buffer == IF coercion.first = "DIVIDE"
                  THEN [i \in 1..array.length |-> TruncDiv(values[i], coercion.second)]
                  ELSE [i \in 1..array.length |-> values[i] * coercion.second]
    IN  IF coercion.first = "DIVIDE"
           /\ DivideByFails(array, values, coercion.second, truncation_allowed)
        THEN [status |-> "Invalid", calls |-> <<>>]
        ELSE IF NoNulls(w, array)
        THEN [status |-> "OK",
              calls |-> <<[WriteNonNullableBatch("Int64Type", target_type, array.length,
                                                 num_levels, lv, buffer)
                              EXCEPT !.capacity = num_levels]>>]
        ELSE [status |-> "OK",
              calls |-> <<[WriteNullableBatch("Int64Type", target_type, array.length,
                                              num_levels, lv, null_bitmap_data(array),
                                              array.offset, buffer)
                              EXCEPT !.capacity = num_levels]>>]

\* ArrowWriterProperties::Builder(): the defaults, then coerce_timestamps(unit)
BuilderCoerce(unit) ==
    [support_deprecated_int96_timestamps |-> FALSE,
     coerce_timestamps_enabled |-> TRUE,
     coerce_timestamps_unit |-> unit,
     truncated_timestamps_allowed |-> FALSE]

\* WriteTimestamps with the user's truncation setting kept when nanoseconds are
\* coerced for a version 1.0 file
WriteTimestampsBranchUserTruncation(array, props, w) ==
    IF props.support_deprecated_int96_timestamps
    THEN [fn |-> "TypedWriteBatch", type |-> "Int96Type", props |-> props]
    ELSE IF props.coerce_timestamps_enabled
    THEN IF array.unit = props.coerce_timestamps_unit
         THEN [fn |-> "TypedWriteBatch", type |-> "Int64Type", props |-> props]
         ELSE [fn |-> "WriteTimestampsCoerce", type |-> "Int64Type", props |-> props]
    ELSE IF w.version = "PARQUET_1_0" /\ array.unit = "NANO"
    THEN [fn |-> "WriteTimestampsCoerce", type |-> "Int64Type",
          props |-> [BuilderCoerce("MICRO") EXCEPT
                        !.truncated_timestamps_allowed =
                            props.truncated_timestamps_allowed]]
    ELSE IF array.unit = "SECOND"
    THEN [fn |-> "WriteTimestampsCoerce", type |-> "Int64Type",
          props |-> BuilderCoerce("MILLI")]
    ELSE [fn |-> "TypedWriteBatch", type |-> "Int64Type", props |-> props]

\* the branch WriteTimestamps takes: the function it calls and the properties it passes
WriteTimestampsBranch(array, props, w) ==
    IF props.support_deprecated_int96_timestamps
    THEN [fn |-> "TypedWriteBatch", type |-> "Int96Type", props |-> props]
    ELSE IF props.coerce_timestamps_enabled
    THEN IF array.unit = props.coerce_timestamps_unit
         THEN [fn |-> "TypedWriteBatch", type |-> "Int64Type", props |-> props]
         ELSE [fn |-> "WriteTimestampsCoerce", type |-> "Int64Type", props |-> props]
    ELSE IF w.version = "PARQUET_1_0" /\ array.unit = "NANO"
    THEN [fn |-> "WriteTimestampsCoerce", type |-> "Int64Type",
          props |-> BuilderCoerce("MICRO")]
    ELSE IF array.unit = "SECOND"
    THEN [fn |-> "WriteTimestampsCoerce", type |-> "Int64Type",
          props |-> BuilderCoerce("MILLI")]
    ELSE [fn |-> "TypedWriteBatch", type |-> "Int64Type", props |-> props]

NoDispatch == [fn |-> "none", type |-> "none", props |-> BuilderCoerce("MILLI")]

WriteTimestamps(array, num_levels, lv, props, w) ==
    LET br == WriteTimestampsBranch(array, props, w)
    IN  IF br.fn = "TypedWriteBatch"
        THEN [status |-> "OK", dispatch |-> br,
              calls |-> TypedWriteBatch(br.type, array, num_levels, lv, w)]
        ELSE LET r == WriteTimestampsCoerce(array, num_levels, lv, br.props, w)
             IN  [status |-> r.status, dispatch |-> br, calls |-> r.calls]


(***************************************************************************)
(* ArrowColumnWriter::Write(const Array&) (writer.cc:932-1004).            *)
(***************************************************************************)
\* GetLeafType, were a branch of several children reported as not implemented
RECURSIVE GetLeafTypeNotImplemented(_)
GetLeafTypeNotImplemented(array) ==
    LET type == Head(array)
    IN  IF type.type \in {"LIST", "STRUCT"}
        THEN IF type.num_children # 1
             THEN [status |-> "NotImplemented", leaf_type |-> "none"]
             ELSE GetLeafTypeNotImplemented(Tail(array))
        ELSE [status |-> "OK", leaf_type |-> type.type]

\* GetLeafType (writer.cc:304-314)
RECURSIVE GetLeafType(_)
GetLeafType(array) ==
    LET type == Head(array)
    IN  IF type.type \in {"LIST", "STRUCT"}
        THEN IF type.num_children # 1
             THEN [status |-> "Invalid", leaf_type |-> "none"]
             ELSE GetLeafType(Tail(array))
        ELSE [status |-> "OK", leaf_type |-> type.type]

\* WRITE_BATCH_CASE: the Parquet type each Arrow type is written as
Int32Cases == {"INT8", "UINT8", "INT16", "UINT16", "INT32", "DATE32", "DATE64", "TIME32"}

Int64Cases == {"INT64", "UINT64", "TIME64"}

\* the switch of Write: the status and the calls made on the column writer
WriteSwitch(values_type, values_array, num_levels, lv, props, w) ==
    LET ok(cs) == [status |-> "OK", dispatch |-> NoDispatch, calls |-> cs]
    IN  CASE values_type = "UINT32" ->
               ok(TypedWriteBatch(IF w.version = "PARQUET_1_0" THEN "Int64Type"
                                  ELSE "Int32Type",
                                  values_array, num_levels, lv, w))
          [] values_type = "NA" -> ok(TypedWriteBatchNull(values_array, num_levels, lv, w))
          [] values_type = "TIMESTAMP" ->
               WriteTimestamps(values_array, num_levels, lv, props, w)
          [] values_type = "BOOL" -> ok(TypedWriteBatchBool(values_array, num_levels, lv, w))
          [] values_type \in Int32Cases ->
               ok(TypedWriteBatch("Int32Type", values_array, num_levels, lv, w))
          [] values_type \in Int64Cases ->
               ok(TypedWriteBatch("Int64Type", values_array, num_levels, lv, w))
          [] values_type = "FLOAT" ->
               ok(TypedWriteBatch("FloatType", values_array, num_levels, lv, w))
          [] values_type = "DOUBLE" ->
               ok(TypedWriteBatch("DoubleType", values_array, num_levels, lv, w))
          [] values_type \in {"BINARY", "STRING"} ->
               ok(TypedWriteBatchBinary("ByteArrayType", values_array, num_levels, lv, w))
          [] values_type = "FIXED_SIZE_BINARY" ->
               ok(TypedWriteBatchBinary("FLBAType", values_array, num_levels, lv, w))
          [] values_type = "DECIMAL" ->
               ok(TypedWriteBatchDecimal(values_array, num_levels, lv, w))
          [] OTHER -> [status |-> "NotImplemented", dispatch |-> NoDispatch,
                       calls |-> <<>>]

(***************************************************************************)
(* ArrowColumnWriter::Write(const ChunkedArray&, offset, size)             *)
(* (writer.cc:324-368).  A chunk is an Array; slices is a history member:  *)
(* the arrays passed to Write(const Array&), in order; overrun is another: *)
(* whether data.chunk was called with an index that is not below           *)
(* num_chunks.                                                             *)
(***************************************************************************)
NoChunked ==
    [active |-> FALSE, chunks |-> <<>>, offset |-> 0, size |-> 0,
     absolute_position |-> 0, chunk_index |-> 0, chunk_offset |-> 0,
     values_written |-> 0, slices |-> <<>>, overrun |-> FALSE]

\* ChunkedArray::length()
RECURSIVE ChunkedLength(_)
ChunkedLength(chunks) ==
    IF chunks = <<>> THEN 0 ELSE Head(Head(chunks)).length + ChunkedLength(Tail(chunks))

\* Array::Slice of a chunk: the outermost layer is sliced, the children are shared
SliceArray(array, off, len) == <<Slice(Head(array), off, len)>> \o Tail(array)

\* the loop that looks for the chunk of the start offset, stopping one chunk early
\* when the offset is the first row of a chunk
RECURSIVE LocateChunkBefore(_, _, _, _)
LocateChunkBefore(chunks, offset, chunk_index, absolute_position) ==
    IF chunk_index < Len(chunks) /\ absolute_position < offset
    THEN LET chunk_length == Head(At(chunks, chunk_index)).length
         IN  IF absolute_position + chunk_length >= offset
             THEN [chunk_index |-> chunk_index, absolute_position |-> absolute_position,
                   chunk_offset |-> offset - absolute_position]
             ELSE LocateChunkBefore(chunks, offset, chunk_index + 1,
                                    absolute_position + chunk_length)
    ELSE [chunk_index |-> chunk_index, absolute_position |-> absolute_position,
          chunk_offset |-> 0]

\* the loop that looks for the chunk of the start offset (writer.cc:329-343)
RECURSIVE LocateChunk(_, _, _, _)
LocateChunk(chunks, offset, chunk_index, absolute_position) ==
    IF chunk_index < Len(chunks) /\ absolute_position < offset
    THEN LET chunk_length == Head(At(chunks, chunk_index)).length
         IN  IF absolute_position + chunk_length > offset
             THEN [chunk_index |-> chunk_index, absolute_position |-> absolute_position,
                   chunk_offset |-> offset - absolute_position]
             ELSE LocateChunk(chunks, offset, chunk_index + 1,
                              absolute_position + chunk_length)
    ELSE [chunk_index |-> chunk_index, absolute_position |-> absolute_position,
          chunk_offset |-> 0]

\* the early returns of Write(const ChunkedArray&), were an empty array refused too
ChunkedEarlyReturnEmptyInvalid(length, absolute_position) ==
    IF length = 0 \/ absolute_position >= length THEN "Invalid" ELSE "none"

\* the early returns of Write(const ChunkedArray&) (writer.cc:325-327, 345-347);
\* "none" when the call goes on to its second loop
ChunkedEarlyReturn(length, absolute_position) ==
    IF length = 0 THEN "OK"
    ELSE IF absolute_position >= length THEN "Invalid"
    ELSE "none"

\* chunk_write_size of the current iteration (writer.cc:351-353)
ChunkWriteSize(c) ==
    Min(c.size - c.values_written,
        Head(At(c.chunks, c.chunk_index)).length - c.chunk_offset)

\* Write(const ChunkedArray&) up to its second loop
ChunkedStart ==
    /\ pc = "chunked"
    /\ LET at == LocateChunk(chunked.chunks, chunked.offset, 0, 0)
           early == ChunkedEarlyReturn(ChunkedLength(chunked.chunks), at.absolute_position)
       IN  IF early # "none"
           THEN /\ status' = early
                /\ pc' = "chunked_done"
                /\ UNCHANGED chunked
           ELSE /\ chunked' = [chunked EXCEPT
                                  !.chunk_index = at.chunk_index,
                                  !.absolute_position = at.absolute_position,
                                  !.chunk_offset = at.chunk_offset,
                                  !.values_written = 0]
                /\ pc' = "chunk_loop"
                /\ UNCHANGED status
    /\ UNCHANGED <<data, field_, properties, writer_, levels, dispatch, calls, file>>

\* what data.chunk(chunk_index) past the last chunk can lead to: the read of a
\* shared_ptr behind the vector of chunks is undefined, the process crashes or the
\* call comes back with some status
OutOfRangeOutcomes == {"crash", "OK", "Invalid"}

\* the head of the second loop, and its body up to the call of Write(const Array&)
ChunkedSlice ==
    /\ pc = "chunk_loop"
    /\ IF chunked.values_written < chunked.size
       THEN IF chunked.chunk_index < Len(chunked.chunks)
            THEN LET array_to_write ==
                         SliceArray(At(chunked.chunks, chunked.chunk_index),
                                    chunked.chunk_offset, ChunkWriteSize(chunked))
                 IN  /\ data' = array_to_write
                     /\ chunked' = [chunked EXCEPT !.slices = Append(@, array_to_write)]
                     /\ pc' = "ready"
                     /\ UNCHANGED status
            ELSE /\ status' \in OutOfRangeOutcomes
                 /\ chunked' = [chunked EXCEPT !.overrun = TRUE]
                 /\ pc' = "chunked_done"
                 /\ UNCHANGED data
       ELSE /\ status' = "OK"
            /\ pc' = "chunked_done"
            /\ UNCHANGED <<data, chunked>>
    /\ UNCHANGED <<field_, properties, writer_, levels, dispatch, calls, file>>

\* the body of the second loop after Write(const Array&) returned
ChunkedAdvance ==
    /\ pc = "done" /\ chunked.active
    /\ IF status # "OK"
       THEN /\ pc' = "chunked_done"
            /\ UNCHANGED chunked
       ELSE /\ chunked' =
                 LET whole == ChunkWriteSize(chunked)
                                = Head(At(chunked.chunks, chunked.chunk_index)).length
                                    - chunked.chunk_offset
                 IN  [chunked EXCEPT
                         !.chunk_offset = IF whole THEN 0 ELSE @,
                         !.chunk_index = IF whole THEN @ + 1 ELSE @,
                         !.values_written = @ + ChunkWriteSize(chunked)]
            /\ pc' = "chunk_loop"
    /\ UNCHANGED <<data, field_, properties, writer_, status, levels, dispatch, calls,
                   file>>

(***************************************************************************)
(* FileWriter (writer.cc:1011-1214).  file holds the members of            *)
(* FileWriter::Impl (closed_, row_group_writer_: 0 for nullptr, else the   *)
(* number of the row group), what the underlying writers keep              *)
(* (num_row_groups, current_column), the frame of WriteTable and three     *)
(* history members: log, the calls made on the underlying file, row-group  *)
(* and column writers; closes, the outcome of every call of Close;         *)
(* failed_at, the length of log when a step of WriteTable failed;          *)
(* chunk_size_arg, the chunk_size WriteTable was called with; user_closes, *)
(* user_row_group, row_group_calls and table_calls, the calls made by the  *)
(* user of the writer; and open, the row groups of the underlying file     *)
(* writer that were appended and not closed: a Close of a row-group writer *)
(* that throws leaves the row group open.                                  *)
(***************************************************************************)
NoTable == [columns |-> <<>>, num_rows |-> 0]

NoFile ==
    [active |-> FALSE, closed_ |-> FALSE, row_group_writer_ |-> 0,
     num_row_groups |-> 0, current_column |-> 0,
     table |-> NoTable, schema_equal |-> TRUE,
     chunk_size_arg |-> 0, chunk_size |-> 0, max_row_group_length |-> 0,
     chunk |-> 0, offset |-> 0, size |-> 0, i |-> 0,
     error |-> "none", result |-> "none", failed_at |-> 0,
     user_row_group |-> FALSE, user_closes |-> 0,
     row_group_calls |-> 0, row_group_budget |-> 0,
     table_calls |-> 1, table_budget |-> 1, close_budget |-> MaxCloses, open |-> {},
     log |-> <<>>, closes |-> <<>>]

\* the rows a column writer was given
RECURSIVE RowsWritten(_)
RowsWritten(cs) ==
    IF cs = <<>> THEN 0 ELSE Head(cs).num_levels + RowsWritten(Tail(cs))

\* one call on an underlying writer: the row group and column it is made on, the
\* range and the table column WriteRowGroup is at and, for the close of a column
\* writer, the batches and rows that writer was given
LogEntry(call, row_group, column, f, cs) ==
    [call |-> call, row_group |-> row_group, column |-> column,
     offset |-> f.offset, size |-> f.size, i |-> f.i,
     batches |-> Len(cs), rows |-> RowsWritten(cs)]

\* what a call of an underlying writer can throw in Close
CloseThrows(f) ==
    {"none"} \cup (IF f.closed_ THEN {}
                   ELSE {"ParquetFileWriter::Close"}
                        \cup (IF f.row_group_writer_ # 0 THEN {"RowGroupWriter::Close"}
                              ELSE {}))

\* FileWriter::Impl::Close, were closed_ set only once the file is closed
ImplCloseFlagOnSuccess(f, throws) ==
    LET done(g, st, n) ==
            [file |-> [g EXCEPT !.closes = Append(@, [status |-> st, calls |-> n,
                                                      log_len |-> Len(g.log)]),
                                !.closed_ = (f.closed_ \/ st = "OK"),
                                !.open = IF n = 2 THEN @ \ {f.row_group_writer_} ELSE @],
             status |-> st]
        open == f.row_group_writer_ # 0
        f2 == IF open
              THEN [f EXCEPT !.log = Append(@, LogEntry("RowGroupWriter::Close",
                                                        f.row_group_writer_, 0, f, <<>>))]
              ELSE f
        f3 == [f2 EXCEPT !.log = Append(@, LogEntry("ParquetFileWriter::Close", 0, 0, f, <<>>))]
    IN  IF f.closed_ THEN done(f, "OK", 0)
        ELSE IF open /\ throws = "RowGroupWriter::Close" THEN done(f2, "IOError", 1)
        ELSE done(f3, IF throws = "ParquetFileWriter::Close" THEN "IOError" ELSE "OK",
                  Len(f3.log) - Len(f.log))

\* FileWriter::Impl::Close (writer.cc:1029-1039): the writer it leaves and the
\* status it returns
ImplClose(f, throws) ==
    LET done(g, st, n) ==
            [file |-> [g EXCEPT !.closes = Append(@, [status |-> st, calls |-> n,
                                                      log_len |-> Len(g.log)]),
                                !.open = IF n = 2 THEN @ \ {f.row_group_writer_} ELSE @],
             status |-> st]
        f1 == [f EXCEPT !.closed_ = TRUE]
        open == f.row_group_writer_ # 0
        f2 == IF open
              THEN [f1 EXCEPT !.log = Append(@, LogEntry("RowGroupWriter::Close",
                                                         f.row_group_writer_, 0, f, <<>>))]
              ELSE f1
        f3 == [f2 EXCEPT !.log = Append(@, LogEntry("ParquetFileWriter::Close", 0, 0, f, <<>>))]
    IN  IF f.closed_ THEN done(f, "OK", 0)
        ELSE IF open /\ throws = "RowGroupWriter::Close" THEN done(f2, "IOError", 1)
        ELSE done(f3, IF throws = "ParquetFileWriter::Close" THEN "IOError" ELSE "OK",
                  Len(f3.log) - Len(f.log))

\* what a call of an underlying writer can throw in NewRowGroup
NewRowGroupThrows(f) ==
    {"none", "AppendRowGroup"}
        \cup (IF f.row_group_writer_ # 0 THEN {"RowGroupWriter::Close"} ELSE {})

\* NewRowGroup, were the open row group left open
ImplNewRowGroupNoClose(f, throws) ==
    LET f2 == [f EXCEPT !.log = Append(@, LogEntry("AppendRowGroup",
                                                   f.num_row_groups + 1, 0, f, <<>>))]
    IN  IF throws = "AppendRowGroup"
        THEN [file |-> f2, status |-> "IOError"]
        ELSE [file |-> [f2 EXCEPT !.row_group_writer_ = f.num_row_groups + 1,
                                  !.num_row_groups = @ + 1,
                                  !.current_column = 0,
                                  !.open = @ \cup {f.num_row_groups + 1}],
              status |-> "OK"]

\* FileWriter::Impl::NewRowGroup (writer.cc:1021-1027)
ImplNewRowGroup(f, throws) ==
    LET open == f.row_group_writer_ # 0
        f1 == IF open
              THEN [f EXCEPT !.log = Append(@, LogEntry("RowGroupWriter::Close",
                                                        f.row_group_writer_, 0, f, <<>>))]
              ELSE f
        f2 == [f1 EXCEPT !.log = Append(@, LogEntry("AppendRowGroup",
                                                    f.num_row_groups + 1, 0, f, <<>>)),
                         !.open = @ \ {f.row_group_writer_}]
    IN  IF open /\ throws = "RowGroupWriter::Close"
        THEN [file |-> f1, status |-> "IOError"]
        ELSE IF throws = "AppendRowGroup"
        THEN [file |-> f2, status |-> "IOError"]
        ELSE [file |-> [f2 EXCEPT !.row_group_writer_ = f.num_row_groups + 1,
                                  !.num_row_groups = @ + 1,
                                  !.current_column = 0,
                                  !.open = @ \cup {f.num_row_groups + 1}],
              status |-> "OK"]

\* arrow::NullArray(length)
NullArray(length) == MkFlat("NA", "NONE", 0, length, FALSE, <<>>, <<>>)

\* arrow::compute::Cast of a dictionary column to its value type: every index is
\* replaced by the dictionary's value, the dictionary holding 10 * j at index j
Cast(chunks, value_type) ==
    [k \in 1..Len(chunks) |->
        <<[chunks[k][1] EXCEPT !.type = value_type,
                               !.values = [p \in DOMAIN @ |-> 10 * @[p]]]>>]

\* the dictionary handling of WriteColumnChunk (writer.cc:1041-1070): the chunked
\* array and the range arrow_writer.Write is called with in the end
ColumnRequest(column, offset, size) ==
    IF column.type = "DICTIONARY"
    THEN IF column.value_type = "NA"
         THEN [chunks |-> <<<<NullArray(ChunkedLength(column.chunks))>>>>,
               offset |-> 0, size |-> ChunkedLength(column.chunks)]
         ELSE [chunks |-> Cast(column.chunks, column.value_type),
               offset |-> offset, size |-> size]
    ELSE [chunks |-> column.chunks, offset |-> offset, size |-> size]

\* what WriteColumnChunk can fail with before arrow_writer.Write
ColumnThrows(column) ==
    {"none", "NextColumn"}
        \cup (IF column.type = "DICTIONARY" /\ column.value_type # "NA" THEN {"Cast"}
              ELSE {})

\* the step of the column loop, skipping a column
NextColumnIndexSkip(i) == i + 2

\* the step of the column loop of WriteRowGroup (writer.cc:1195)
NextColumnIndex(i) == i + 1

\* the size of the row group at offset (writer.cc:1210), without the min
RowGroupSizeUnclamped(chunk_size, num_rows, offset) == chunk_size

\* the size of the row group at offset (writer.cc:1210)
RowGroupSize(chunk_size, num_rows, offset) == Min(chunk_size, num_rows - offset)

\* WriteTable up to the first row group, without the comparison of the schemas
WriteTableStartNoSchemaCheck ==
    /\ pc = "table"
    /\ IF file.chunk_size <= 0 /\ file.table.num_rows > 0
       THEN /\ file' = [file EXCEPT !.result = "Invalid"]
            /\ pc' = "idle"
       ELSE LET c == IF file.chunk_size > file.max_row_group_length
                     THEN file.max_row_group_length ELSE file.chunk_size
            IN  IF file.table.num_rows = 0
                THEN /\ file' = [file EXCEPT !.chunk_size = c, !.offset = 0, !.size = 0]
                     /\ pc' = "new_row_group"
                ELSE /\ file' = [file EXCEPT !.chunk_size = c, !.chunk = 0]
                     /\ pc' = "row_group_loop"
    /\ UNCHANGED <<data, field_, properties, writer_, status, levels, dispatch, calls,
                   chunked>>

\* FileWriter::WriteTable up to the first row group (writer.cc:1180-1205)
WriteTableStart ==
    /\ pc = "table"
    /\ IF file.chunk_size <= 0 /\ file.table.num_rows > 0
       THEN /\ file' = [file EXCEPT !.result = "Invalid"]
            /\ pc' = "idle"
       ELSE IF ~file.schema_equal
       THEN /\ file' = [file EXCEPT !.result = "Invalid"]
            /\ pc' = "idle"
       ELSE LET c == IF file.chunk_size > file.max_row_group_length
                     THEN file.max_row_group_length ELSE file.chunk_size
            IN  IF file.table.num_rows = 0
                THEN /\ file' = [file EXCEPT !.chunk_size = c, !.offset = 0, !.size = 0]
                     /\ pc' = "new_row_group"
                ELSE /\ file' = [file EXCEPT !.chunk_size = c, !.chunk = 0]
                     /\ pc' = "row_group_loop"
    /\ UNCHANGED <<data, field_, properties, writer_, status, levels, dispatch, calls,
                   chunked>>

\* the head of the loop over row groups, and the return after the last one
\* (writer.cc:1203-1213)
WriteTableLoop ==
    /\ pc = "row_group_loop"
    /\ IF file.table.num_rows > 0 /\ file.chunk * file.chunk_size < file.table.num_rows
       THEN /\ file' = [file EXCEPT
                           !.offset = file.chunk * file.chunk_size,
                           !.size = RowGroupSize(file.chunk_size, file.table.num_rows,
                                                 file.chunk * file.chunk_size)]
            /\ pc' = "new_row_group"
       ELSE /\ file' = [file EXCEPT !.result = "OK"]
            /\ pc' = "idle"
    /\ UNCHANGED <<data, field_, properties, writer_, status, levels, dispatch, calls,
                   chunked>>

\* WriteRowGroup: RETURN_NOT_OK(NewRowGroup(size)) (writer.cc:1193-1194)
WriteRowGroup ==
    /\ pc = "new_row_group"
    /\ \E throws \in NewRowGroupThrows(file) :
         LET r == ImplNewRowGroup(file, throws)
         IN  IF r.status = "OK"
             THEN /\ file' = [r.file EXCEPT !.i = 0]
                  /\ pc' = "column_loop"
             ELSE /\ file' = [r.file EXCEPT !.error = r.status,
                                            !.failed_at = Len(r.file.log)]
                  /\ pc' = "table_fail"
    /\ UNCHANGED <<data, field_, properties, writer_, status, levels, dispatch, calls,
                   chunked>>

\* WriteColumnChunk up to the call of arrow_writer.Write, were a column writer
\* obtained twice and the second one written to
WriteColumnChunkTwoWriters ==
    /\ pc = "column_loop"
    /\ IF file.i < Len(file.table.columns)
       THEN \E throws \in ColumnThrows(At(file.table.columns, file.i)) :
              LET column == At(file.table.columns, file.i)
                  request == ColumnRequest(column, file.offset, file.size)
                  next == [file EXCEPT
                              !.log = @ \o <<LogEntry("NextColumn", file.row_group_writer_,
                                                      file.current_column, file, <<>>),
                                             LogEntry("NextColumn", file.row_group_writer_,
                                                      file.current_column + 1, file, <<>>)>>,
                              !.current_column = @ + 2]
              IN  IF throws = "Cast"
                  THEN /\ file' = [file EXCEPT !.error = "Invalid",
                                               !.failed_at = Len(file.log)]
                       /\ pc' = "table_fail"
                       /\ UNCHANGED <<field_, writer_, status, levels, calls, chunked>>
                  ELSE IF throws = "NextColumn"
                  THEN /\ file' = [file EXCEPT
                                      !.log = Append(@, LogEntry("NextColumn",
                                                                 file.row_group_writer_,
                                                                 file.current_column, file, <<>>)),
                                      !.error = "IOError",
                                      !.failed_at = Len(file.log) + 1]
                       /\ pc' = "table_fail"
                       /\ UNCHANGED <<field_, writer_, status, levels, calls, chunked>>
                  ELSE /\ file' = next
                       /\ chunked' = [NoChunked EXCEPT !.active = TRUE,
                                                       !.chunks = request.chunks,
                                                       !.offset = request.offset,
                                                       !.size = request.size]
                       /\ field_' = MkField(<<column.nullable>>)
                       /\ writer_' = [version |-> "PARQUET_1_0",
                                      is_required |-> ~column.nullable]
                       /\ status' = "none"
                       /\ levels' = NoLevels
                       /\ calls' = <<>>
                       /\ pc' = "chunked"
       ELSE /\ file' = [file EXCEPT !.chunk = @ + 1]
            /\ pc' = "row_group_loop"
            /\ UNCHANGED <<field_, writer_, status, levels, calls, chunked>>
    /\ UNCHANGED <<data, properties, dispatch>>

\* the head of the column loop of WriteRowGroup and WriteColumnChunk up to the
\* call of arrow_writer.Write (writer.cc:1195-1196, 1048-1085)
WriteColumnChunk ==
    /\ pc = "column_loop"
    /\ IF file.i < Len(file.table.columns)
       THEN \E throws \in ColumnThrows(At(file.table.columns, file.i)) :
              LET column == At(file.table.columns, file.i)
                  request == ColumnRequest(column, file.offset, file.size)
                  next == [file EXCEPT
                              !.log = Append(@, LogEntry("NextColumn", file.row_group_writer_,
                                                         file.current_column, file, <<>>)),
                              !.current_column = @ + 1]
              IN  IF throws = "Cast"
                  THEN /\ file' = [file EXCEPT !.error = "Invalid",
                                               !.failed_at = Len(file.log)]
                       /\ pc' = "table_fail"
                       /\ UNCHANGED <<field_, writer_, status, levels, calls, chunked>>
                  ELSE IF throws = "NextColumn"
                  THEN /\ file' = [file EXCEPT
                                      !.log = Append(@, LogEntry("NextColumn",
                                                                 file.row_group_writer_,
                                                                 file.current_column, file, <<>>)),
                                      !.error = "IOError",
                                      !.failed_at = Len(file.log) + 1]
                       /\ pc' = "table_fail"
                       /\ UNCHANGED <<field_, writer_, status, levels, calls, chunked>>
                  ELSE /\ file' = next
                       /\ chunked' = [NoChunked EXCEPT !.active = TRUE,
                                                       !.chunks = request.chunks,
                                                       !.offset = request.offset,
                                                       !.size = request.size]
                       /\ field_' = MkField(<<column.nullable>>)
                       /\ writer_' = [version |-> "PARQUET_1_0",
                                      is_required |-> ~column.nullable]
                       /\ status' = "none"
                       /\ levels' = NoLevels
                       /\ calls' = <<>>
                       /\ pc' = "chunked"
       ELSE /\ file' = [file EXCEPT !.chunk = @ + 1]
            /\ pc' = "row_group_loop"
            /\ UNCHANGED <<field_, writer_, status, levels, calls, chunked>>
    /\ UNCHANGED <<data, properties, dispatch>>

\* WriteColumnChunk after arrow_writer.Write returned (writer.cc:1086-1087) and
\* the step of the column loop
WriteColumnChunkEnd ==
    /\ pc = "chunked_done" /\ file.active
    /\ IF status # "OK"
       THEN /\ file' = [file EXCEPT !.error = status, !.failed_at = Len(file.log)]
            /\ pc' = "table_fail"
       ELSE \E throws \in {"none", "ColumnWriter::Close"} :
              LET closed == [file EXCEPT
                                !.log = Append(@, LogEntry("ColumnWriter::Close",
                                                           file.row_group_writer_,
                                                           file.current_column - 1, file, calls))]
              IN  IF throws = "none"
                  THEN /\ file' = [closed EXCEPT !.i = NextColumnIndex(@)]
                       /\ pc' = "column_loop"
                  ELSE /\ file' = [closed EXCEPT !.error = "IOError",
                                                 !.failed_at = Len(closed.log)]
                       /\ pc' = "table_fail"
    /\ UNCHANGED <<data, field_, properties, writer_, status, levels, dispatch, calls,
                   chunked>>

\* the failure path of WriteTable, without the call of Close
WriteTableFailNoClose ==
    /\ pc = "table_fail"
    /\ file' = [file EXCEPT !.result = file.error]
    /\ pc' = "idle"
    /\ UNCHANGED <<data, field_, properties, writer_, status, levels, dispatch, calls,
                   chunked>>

\* RETURN_NOT_OK_ELSE(WriteRowGroup(...), PARQUET_IGNORE_NOT_OK(Close()))
\* (writer.cc:1203, 1209-1211) when WriteRowGroup failed
WriteTableFail ==
    /\ pc = "table_fail"
    /\ \E throws \in CloseThrows(file) :
         file' = [ImplClose(file, throws).file EXCEPT !.result = file.error]
    /\ pc' = "idle"
    /\ UNCHANGED <<data, field_, properties, writer_, status, levels, dispatch, calls,
                   chunked>>

\* FileWriter::Close called by the user of the writer (writer.cc:1029-1039), at
\* most close_budget times and MaxCloses times in all
Close ==
    /\ pc = "idle"
    /\ Len(file.closes) < MaxCloses
    /\ file.user_closes < file.close_budget
    /\ \E throws \in CloseThrows(file) :
         file' = [ImplClose(file, throws).file EXCEPT !.user_closes = @ + 1]
    /\ UNCHANGED <<data, field_, properties, writer_, pc, status, levels, dispatch, calls,
                   chunked>>

\* FileWriter::NewRowGroup called by the user of the writer (writer.cc:1021-1027),
\* at most row_group_budget times
NewRowGroup ==
    /\ pc = "idle"
    /\ file.row_group_calls < file.row_group_budget
    /\ \E throws \in NewRowGroupThrows(file) :
         file' = [ImplNewRowGroup(file, throws).file EXCEPT !.user_row_group = TRUE,
                                                            !.row_group_calls = @ + 1]
    /\ UNCHANGED <<data, field_, properties, writer_, pc, status, levels, dispatch, calls,
                   chunked>>

(***************************************************************************)
(* The state machine: one call of Write on one input.  The call runs in    *)
(* two steps, with nothing in between: WriteLevels is Write up to the      *)
(* return of GenerateLevels (writer.cc:932-959), WriteValues is the switch *)
(* on the leaf type and what it calls (writer.cc:961-1003).                *)
(***************************************************************************)
DefaultProperties ==
    [support_deprecated_int96_timestamps |-> FALSE,
     coerce_timestamps_enabled |-> FALSE,
     coerce_timestamps_unit |-> "MILLI",
     truncated_timestamps_allowed |-> FALSE]

Versions == {"PARQUET_1_0", "PARQUET_2_0"}

InitCommon ==
    /\ pc = "ready"
    /\ status = "none"
    /\ levels = NoLevels
    /\ dispatch = NoDispatch
    /\ calls = <<>>
    /\ chunked = NoChunked
    /\ file = NoFile

LevelsWriter(f) ==
    [version |-> "PARQUET_1_0", is_required |-> ~f[Len(f)].nullable]

\* the level builder on a flat int32 array, sliced or not, or on a NullArray
InitLevels0 ==
    \E f \in Fields(0) :
        /\ field_ = f
        /\ writer_ = LevelsWriter(f)
        /\ \E leaf \in [type : {"INT32", "NA"}] :
             \E off \in SliceOffsets, len \in 0..MaxLeaf :
               \E bm \in Bitmaps(len, TRUE) :
                 /\ leaf.type = "NA" => (off = 0 /\ ~bm.has)
                 /\ data = <<MkFlat(leaf.type, "NONE", off, len, bm.has, bm.bits,
                                    StoredValues(leaf.type, off + len))>>

\* ... on a list<int32> or list<null>, the list array and the leaf sliced or not
InitLevels1 ==
    \E f \in Fields(1) :
        /\ field_ = f
        /\ writer_ = LevelsWriter(f)
        /\ \E leaf \in [type : {"INT32", "NA"}] :
             \E loff \in SliceOffsets, llen \in 0..MaxLeaf :
               \E lbm \in Bitmaps(llen, TRUE) :
                 /\ leaf.type = "NA" => (loff = 0 /\ ~lbm.has)
                 /\ \E off \in SliceOffsets, len \in 0..MaxLen :
                      \E bm \in Bitmaps(len, TRUE), o \in MonoSeqs(len, llen) :
                        data = <<MkList(off, len, bm.has, bm.bits, o),
                                 MkFlat(leaf.type, "NONE", loff, llen, lbm.has, lbm.bits,
                                        StoredValues(leaf.type, loff + llen))>>

\* ... on a list<list<int32>>, the outer list array sliced or not, the inner list
\* array and the leaf both sliced or both not; a layer the field declares
\* non-nullable holds no null
InitLevels2 ==
    \E f \in Fields(2) :
        /\ field_ = f
        /\ writer_ = LevelsWriter(f)
        /\ \E llen \in NestedLeaf, mlen \in NestedMid :
             \E lbm \in Bitmaps(llen, f[3].nullable),
                mbm \in Bitmaps(mlen, f[2].nullable),
                mo \in MonoSeqs(mlen, llen) :
               \E off \in SliceOffsets, ioff \in SliceOffsets, len \in NestedLens :
                 \E bm \in Bitmaps(len, f[1].nullable), o \in MonoSeqs(len, mlen) :
                   data = <<MkList(off, len, bm.has, bm.bits, o),
                            MkList(ioff, mlen, mbm.has, mbm.bits, mo),
                            MkFlat("INT32", "NONE", ioff, llen, lbm.has, lbm.bits,
                                   StoredValues("INT32", ioff + llen))>>

InitLevels ==
    /\ InitLevels0 \/ InitLevels1 \/ InitLevels2
    /\ properties = DefaultProperties
    /\ InitCommon

\* the Arrow types of the materializer check; HALF_FLOAT is not supported
WriteTypes ==
    {"NA", "BOOL", "INT8", "UINT8", "INT16", "UINT16", "INT32", "UINT32", "INT64",
     "UINT64", "FLOAT", "DOUBLE", "BINARY", "STRING", "FIXED_SIZE_BINARY", "DECIMAL",
     "DATE32", "DATE64", "TIME32", "TIME64", "TIMESTAMP", "HALF_FLOAT"}

\* the units of a type that has one; the timestamp units here are written unchanged
UnitsOf(type) ==
    CASE type = "TIME32" -> {"SECOND", "MILLI"}
      [] type = "TIMESTAMP" -> {"MILLI", "MICRO"}
      [] OTHER -> {"NONE"}

\* the materializer on a flat array of every type, sliced or not, on a list of
\* some types, on a struct of two fields and on a list of such a struct; the
\* schema node is required or optional independently of
\* the nulls the array holds
InitWrite ==
    /\ \E type \in WriteTypes, nullable \in BOOLEAN, is_required \in BOOLEAN,
          version \in Versions :
         \E unit \in UnitsOf(type), off \in SliceOffsets, len \in 0..MaxLeaf :
           \E bm \in Bitmaps(len, TRUE) :
             /\ type = "NA" => (off = 0 /\ ~bm.has)
             /\ writer_ = [version |-> version, is_required |-> is_required]
             /\ \/ /\ field_ = MkField(<<nullable>>)
                   /\ data = <<MkFlat(type, unit, off, len, bm.has, bm.bits,
                                      StoredValues(type, off + len))>>
                \/ /\ type \in {"INT32", "BOOL", "BINARY", "DATE64", "DECIMAL"}
                   /\ version = "PARQUET_1_0"
                   /\ field_ = MkField(<<FALSE, nullable>>)
                   /\ \E o \in MonoSeqs(1, len) :
                        data = <<MkList(0, 1, FALSE, <<>>, o),
                                 MkFlat(type, unit, off, len, bm.has, bm.bits,
                                        StoredValues(type, off + len))>>
                \/ /\ type = "INT32" /\ off = 0 /\ ~bm.has
                   /\ field_ = MkField(<<FALSE, nullable>>)
                   /\ data = <<MkStruct(2, len),
                               MkFlat(type, unit, 0, len, FALSE, <<>>,
                                      StoredValues(type, len))>>
                \/ /\ type = "INT32" /\ off = 0 /\ ~bm.has
                   /\ field_ = MkField(<<FALSE, FALSE, nullable>>)
                   /\ \E o \in MonoSeqs(1, len) :
                        data = <<MkList(0, 1, FALSE, <<>>, o), MkStruct(2, len),
                                 MkFlat(type, unit, 0, len, FALSE, <<>>,
                                        StoredValues(type, len))>>
    /\ properties = DefaultProperties
    /\ InitCommon

\* the timestamps that are enumerated, by unit: every product with a factor of the
\* coercion table stays below 2^31
TsValues(unit) ==
    CASE unit = "SECOND" -> {0, 1, 2}
      [] unit = "MILLI" -> {0, 1, 1000}
      [] unit = "MICRO" -> {1000, 1500, -2000}
      [] OTHER -> {1000, 1500, 2000000}

\* the units coerce_timestamps_unit takes: coercion to seconds is the COERCE_INVALID
\* column of the table, which the DCHECK_NE of WriteTimestampsCoerce rules out
CoerceUnits == {"MILLI", "MICRO", "NANO"}

\* the timestamp policy on a flat timestamp array of every unit, under every
\* combination of properties
InitTs ==
    /\ \E unit \in {"SECOND", "MILLI", "MICRO", "NANO"}, len \in 0..MaxTs,
          is_required \in BOOLEAN, version \in Versions :
         \E vals \in [1..len -> TsValues(unit)], bm \in Bitmaps(len, TRUE) :
           /\ data = <<MkFlat("TIMESTAMP", unit, 0, len, bm.has, bm.bits, vals)>>
           /\ field_ = MkField(<<~is_required>>)
           /\ writer_ = [version |-> version, is_required |-> is_required]
    /\ properties \in [support_deprecated_int96_timestamps : BOOLEAN,
                       coerce_timestamps_enabled : BOOLEAN,
                       coerce_timestamps_unit : CoerceUnits,
                       truncated_timestamps_allowed : BOOLEAN]
    /\ InitCommon

\* Write(const Array&) up to the return of GenerateLevels: an empty array writes
\* nothing, and an error of GetLeafType or GenerateLevels is returned
WriteLevels ==
    /\ pc = "ready"
    /\ IF Head(data).length = 0
       THEN /\ status' = "OK"
            /\ pc' = "done"
            /\ UNCHANGED levels
       ELSE IF GetLeafType(data).status # "OK"
       THEN /\ status' = GetLeafType(data).status
            /\ pc' = "done"
            /\ UNCHANGED levels
       ELSE LET g == GenerateLevels(data, field_)
            IN  /\ levels' = g.out
                /\ status' = IF g.status = "OK" THEN status ELSE g.status
                /\ pc' = IF g.status = "OK" THEN "levels" ELSE "done"
    /\ UNCHANGED <<data, field_, properties, writer_, dispatch, calls, chunked, file>>

\* the rest of Write(const Array&): the leaf is sliced and written by its type; a
\* store past the end of a buffer has any of its outcomes
WriteValues ==
    /\ pc = "levels"
    /\ \E outcome \in UndefinedOutcomes(Slice(Head(levels.values_array),
                                                levels.values_offset, levels.num_values),
                                          writer_) :
         LET r == UnderOutcome(
                      WriteSwitch(GetLeafType(data).leaf_type,
                                  Slice(Head(levels.values_array), levels.values_offset,
                                        levels.num_values),
                                  levels.num_levels, levels, properties, writer_),
                      DecimalOverrunSlots(Slice(Head(levels.values_array),
                                                levels.values_offset, levels.num_values),
                                          writer_),
                      outcome)
         IN  /\ status' = r.status
             /\ dispatch' = r.dispatch
             /\ calls' = calls \o r.calls
    /\ pc' = "done"
    /\ UNCHANGED <<data, field_, properties, writer_, levels, chunked, file>>

Next == WriteLevels \/ WriteValues

\* WriteTimestampsCoerce on its own: a flat timestamp array of every unit with the
\* levels of a primitive column, and every target unit the table has an operation for
InitCoerce ==
    /\ \E unit \in {"SECOND", "MILLI", "MICRO", "NANO"}, len \in 1..MaxTs,
          is_required \in BOOLEAN :
         \E vals \in [1..len -> TsValues(unit)], bm \in Bitmaps(len, TRUE) :
           /\ data = <<MkFlat("TIMESTAMP", unit, 0, len, bm.has, bm.bits, vals)>>
           /\ field_ = MkField(<<~is_required>>)
           /\ writer_ = [version |-> "PARQUET_1_0", is_required |-> is_required]
           /\ levels = [NoLevels EXCEPT
                           !.num_values = len, !.num_levels = len,
                           !.values_array = data,
                           !.has_def = ~is_required,
                           !.def_levels = IF is_required THEN <<>>
                                          ELSE PrimitiveDefLevels(Head(data)),
                           !.generated = TRUE]
    /\ properties \in [support_deprecated_int96_timestamps : {FALSE},
                       coerce_timestamps_enabled : {TRUE},
                       coerce_timestamps_unit : CoerceUnits,
                       truncated_timestamps_allowed : BOOLEAN]
    /\ pc = "coerce"
    /\ status = "none"
    /\ dispatch = NoDispatch
    /\ calls = <<>>
    /\ chunked = NoChunked
    /\ file = NoFile

\* one call of WriteTimestampsCoerce
Coerce ==
    /\ pc = "coerce"
    /\ LET r == WriteTimestampsCoerce(Head(data), levels.num_levels, levels, properties,
                                      writer_)
       IN  /\ status' = r.status
           /\ calls' = calls \o r.calls
    /\ dispatch' = [fn |-> "WriteTimestampsCoerce", type |-> "Int64Type",
                    props |-> properties]
    /\ pc' = "done"
    /\ UNCHANGED <<data, field_, properties, writer_, levels, chunked, file>>

NextCoerce == Coerce

\* the number of rows of the chunks before chunk k
RECURSIVE RowsBefore(_, _)
RowsBefore(lens, k) == IF k <= 1 THEN 0 ELSE lens[k - 1] + RowsBefore(lens, k - 1)

\* the chunks of a column of the given chunk lengths, each chunk an array of its own
\* at array offset off: logical row r of the column stores r + 1
MkChunks(type, lens, off) ==
    [k \in 1..Len(lens) |->
        <<MkFlat(type, "NONE", off, lens[k], FALSE, <<>>,
                 [p \in 1..(off + lens[k]) |->
                     IF p <= off THEN 0 ELSE RowsBefore(lens, k) + (p - off)])>>]

\* a call of Write(const ChunkedArray&, offset, size) on a required column of up to
\* MaxChunks chunks, empty chunks included, for a range that ends inside the
\* column or past its end and for an offset past its end; HALF_FLOAT is a type Write(const Array&) does not support
InitChunked ==
    /\ \E n \in 0..MaxChunks, type \in {"INT32", "HALF_FLOAT"}, off \in SliceOffsets :
         \E lens \in [1..n -> 0..MaxChunkLen] :
           \E offset \in 0..(RowsBefore(lens, n + 1) + 2),
              size \in 0..(RowsBefore(lens, n + 1) + 1) :
             /\ chunked = [NoChunked EXCEPT !.active = TRUE,
                                            !.chunks = MkChunks(type, lens, off),
                                            !.offset = offset, !.size = size]
    /\ data = <<>>
    /\ field_ = MkField(<<FALSE>>)
    /\ writer_ = [version |-> "PARQUET_1_0", is_required |-> TRUE]
    /\ properties = DefaultProperties
    /\ pc = "chunked"
    /\ status = "none"
    /\ levels = NoLevels
    /\ dispatch = NoDispatch
    /\ calls = <<>>
    /\ file = NoFile

\* the column kinds of a table: type and dictionary value type
ColumnKinds ==
    {<<"INT32", "NONE">>, <<"HALF_FLOAT", "NONE">>, <<"DICTIONARY", "INT32">>,
     <<"DICTIONARY", "NA">>}

\* a column of a table: a dictionary column stores its indices; a dictionary of
\* nulls is written to an optional node, the other columns to a required one
MkColumn(kind, lens) ==
    [type |-> kind[1], value_type |-> kind[2],
     nullable |-> (kind[2] = "NA"),
     chunks |-> MkChunks(kind[1], lens, 0)]

\* a call of WriteTable on a new writer, followed by calls of Close: a valid table
\* of up to MaxColumns columns and MaxRows rows, every column in one chunk or split
\* after its first row
InitTable ==
    /\ \E n \in 1..MaxColumns, num_rows \in 0..MaxRows, split \in BOOLEAN,
          chunk_size \in 0..(MaxRows + 1), max \in RowGroupLengths,
          schema_equal \in BOOLEAN :
         \E kinds \in [1..n -> ColumnKinds] :
           /\ split => num_rows >= 1
           /\ file = [NoFile EXCEPT
                         !.active = TRUE,
                         !.table = [columns |->
                                       [j \in 1..n |->
                                           MkColumn(kinds[j],
                                                    IF split THEN <<1, num_rows - 1>>
                                                    ELSE <<num_rows>>)],
                                    num_rows |-> num_rows],
                         !.schema_equal = schema_equal,
                         !.chunk_size_arg = chunk_size,
                         !.chunk_size = chunk_size,
                         !.max_row_group_length = max]
    /\ data = <<>>
    /\ field_ = MkField(<<FALSE>>)
    /\ writer_ = [version |-> "PARQUET_1_0", is_required |-> TRUE]
    /\ properties = DefaultProperties
    /\ pc = "table"
    /\ status = "none"
    /\ levels = NoLevels
    /\ dispatch = NoDispatch
    /\ calls = <<>>
    /\ chunked = NoChunked

NextTable ==
    \/ WriteTableStart \/ WriteTableLoop \/ WriteRowGroup \/ WriteColumnChunk
    \/ ChunkedStart \/ ChunkedSlice \/ WriteLevels \/ WriteValues \/ ChunkedAdvance
    \/ WriteColumnChunkEnd \/ WriteTableFail \/ Close

SpecTable == InitTable /\ [][NextTable]_vars

\* FileWriter::WriteTable called by the user of the writer, with the table and
\* chunk_size of the first call (writer.cc:1180), at most table_budget times
WriteTable ==
    /\ pc = "idle"
    /\ file.table_calls < file.table_budget
    /\ file' = [file EXCEPT !.table_calls = @ + 1,
                            !.chunk_size = file.chunk_size_arg,
                            !.chunk = 0, !.offset = 0, !.size = 0, !.i = 0,
                            !.error = "none", !.result = "none", !.failed_at = 0]
    /\ pc' = "table"
    /\ UNCHANGED <<data, field_, properties, writer_, status, levels, dispatch, calls,
                   chunked>>

\* a new FileWriter and the calls its user makes in any order: WriteTable of a
\* table of one INT32 column in row groups of one row, NewRowGroup and Close
InitSession ==
    /\ \E num_rows \in SessionRows :
         file = [NoFile EXCEPT
                    !.active = TRUE,
                    !.table = [columns |-> <<MkColumn(<<"INT32", "NONE">>, <<num_rows>>)>>,
                               num_rows |-> num_rows],
                    !.chunk_size_arg = 1,
                    !.chunk_size = 1,
                    !.max_row_group_length = 8,
                    !.table_calls = 0,
                    !.table_budget = 2,
                    !.row_group_budget = 2,
                    !.close_budget = 2]
    /\ data = <<>>
    /\ field_ = MkField(<<FALSE>>)
    /\ writer_ = [version |-> "PARQUET_1_0", is_required |-> TRUE]
    /\ properties = DefaultProperties
    /\ pc = "idle"
    /\ status = "none"
    /\ levels = NoLevels
    /\ dispatch = NoDispatch
    /\ calls = <<>>
    /\ chunked = NoChunked

NextSession == WriteTable \/ NewRowGroup \/ NextTable

SpecSession == InitSession /\ [][NextSession]_vars

NextChunked == ChunkedStart \/ ChunkedSlice \/ WriteLevels \/ WriteValues \/ ChunkedAdvance

SpecChunked == InitChunked /\ [][NextChunked]_vars

SpecCoerce == InitCoerce /\ [][NextCoerce]_vars

SpecLevels == InitLevels /\ [][Next]_vars

SpecWrite == InitWrite /\ [][Next]_vars

SpecTs == InitTs /\ [][Next]_vars

(***************************************************************************)
(* Properties.                                                             *)
(***************************************************************************)
\* slot i of the array holds a value: a NullArray holds none, an array without a
\* validity bitmap holds one in every slot
IsValidAt(a, i) == a.type # "NA" /\ (a.has_bitmap => a.null_bitmap[a.offset + i + 1])

\* the number of entries of s that equal v
CountEq(s, v) == Cardinality({i \in 1..Len(s) : s[i] = v})

\* the number of layers the field declares nullable, leaf included
NullableLayers == Cardinality({i \in 1..Len(field_) : field_[i].nullable})

\* the number of list layers above the leaf
ListLayers == Len(data) - 1

IsNested == Len(data) > 1

\* C1: for a nullable primitive array of length >= 1, sliced or not, GenerateLevels
\* hands back a definition-level buffer of array.length entries and no
\* repetition-level buffer, and entry i is 1 if slot i is valid and 0 otherwise
C1_PrimitiveDefLevels ==
    (levels.generated /\ ~IsNested /\ field_[1].nullable) =>
        /\ levels.has_def
        /\ ~levels.has_rep
        /\ Len(levels.def_levels) = data[1].length
        /\ \A i \in 0..(data[1].length - 1) :
             levels.def_levels[i + 1] = IF IsValidAt(data[1], i) THEN 1 ELSE 0

\* a nullable int32 array sliced at offset 1 whose slice holds a value, then a null:
\* the bitmap-reading path
C1_Witness ==
    /\ levels.generated /\ ~IsNested /\ field_[1].nullable
    /\ data[1].offset = 1 /\ data[1].length = 2 /\ data[1].null_count = 1
    /\ levels.def_levels = <<1, 0>>

\* C2: for a list input of nesting depth 1 or 2 with N >= 1 top-level entries, the
\* repetition levels hold the value 0 exactly N times
C2_RepZeroPerRecord ==
    (levels.generated /\ IsNested) =>
        /\ levels.has_rep
        /\ CountEq(levels.rep_levels, 0) = data[1].length

\* a list of lists of two records, one of them a null list, the other one with
\* siblings below it
C2_Witness ==
    /\ levels.generated /\ Len(data) = 3 /\ data[1].length = 2
    /\ \E i \in 0..1 : ~IsValidAt(data[1], i) /\ field_[1].nullable
    /\ Len(levels.rep_levels) > 2

\* C3: for a list input, the definition levels and the repetition levels handed
\* back have the same number of entries, and num_levels is that number
C3_SameLength ==
    (levels.generated /\ IsNested) =>
        /\ levels.has_def /\ levels.has_rep
        /\ Len(levels.def_levels) = Len(levels.rep_levels)
        /\ levels.num_levels = Len(levels.rep_levels)

\* a list of lists that holds an empty inner list and a leaf with a sibling
C3_Witness ==
    /\ levels.generated /\ Len(data) = 3
    /\ \E j \in 0..(data[2].length - 1) : value_offset(data[2], j) = value_offset(data[2], j + 1)
    /\ 2 \in {levels.rep_levels[k] : k \in 1..Len(levels.rep_levels)}
    /\ levels.num_levels >= 3

\* the (rep, def) entries of records i.. of a single-level list whose list layer is
\* nullable and whose elements are not: one (0, 0) for a null list, one (0, 1) for an
\* empty list, and for n elements (0, 2) followed by n - 1 times (1, 2)
RECURSIVE C4_Expected(_, _)
C4_Expected(a, i) ==
    IF i >= a.length THEN <<>>
    ELSE LET n == a.value_offsets[a.offset + i + 2] - a.value_offsets[a.offset + i + 1]
             record == IF ~IsValidAt(a, i) THEN <<[rep |-> 0, def |-> 0]>>
                       ELSE IF n = 0 THEN <<[rep |-> 0, def |-> 1]>>
                       ELSE [k \in 1..n |-> [rep |-> IF k = 1 THEN 0 ELSE 1, def |-> 2]]
         IN  record \o C4_Expected(a, i + 1)

\* C4: for a single-level list column whose list layer is nullable and whose element
\* layer is not, the levels are, record by record: (rep 0, def 0) for a null list,
\* (rep 0, def 1) for an empty list, and for a list of n >= 1 elements n entries of
\* def 2, the first with rep 0 and the others with rep 1
C4_SingleLevelList ==
    (levels.generated /\ Len(data) = 2 /\ field_[1].nullable /\ ~field_[2].nullable) =>
        /\ Len(levels.rep_levels) = Len(levels.def_levels)
        /\ [k \in 1..Len(levels.rep_levels) |->
               [rep |-> levels.rep_levels[k], def |-> levels.def_levels[k]]]
             = C4_Expected(data[1], 0)

\* a sliced list array that holds a list of two elements, then a null list
C4_Witness ==
    /\ levels.generated /\ Len(data) = 2 /\ field_[1].nullable /\ ~field_[2].nullable
    /\ data[1].offset = 1 /\ data[1].length = 2
    /\ levels.rep_levels = <<0, 1, 0>>
    /\ levels.def_levels = <<2, 2, 0>>

\* C5 (as amended): for a list column of nesting depth 1 or 2, every definition level
\* is at most the number of nullable layers along the path, leaf included, plus the
\* number of list layers (1 for depth 1, 2 for depth 2)
C5_DefLevelBound ==
    (levels.generated /\ IsNested) =>
        \A k \in 1..Len(levels.def_levels) :
            levels.def_levels[k] <= NullableLayers + ListLayers

\* C5 as stated: every definition level is at most the number of nullable layers
\* plus 1
C5_AsStated ==
    (levels.generated /\ IsNested) =>
        \A k \in 1..Len(levels.def_levels) :
            levels.def_levels[k] <= NullableLayers + 1

\* a list of lists with every layer nullable writes a present leaf at level 5
C5_Witness ==
    /\ levels.generated /\ Len(data) = 3 /\ NullableLayers = 3
    /\ 5 \in {levels.def_levels[k] : k \in 1..Len(levels.def_levels)}

\* the leaf values of a list of lists that are present and lie below a non-null inner
\* list of a non-null record of the written range, as (record, inner list, leaf)
C6_PresentLeaves ==
    {t \in (0..(data[1].length - 1)) \X (0..(data[2].length - 1))
              \X (0..(data[3].length - 1)) :
        /\ IsValidAt(data[1], t[1])
        /\ value_offset(data[1], t[1]) <= t[2] /\ t[2] < value_offset(data[1], t[1] + 1)
        /\ IsValidAt(data[2], t[2])
        /\ value_offset(data[2], t[2]) <= t[3] /\ t[3] < value_offset(data[2], t[2] + 1)
        /\ IsValidAt(data[3], t[3])}

RECURSIVE C7_Follow(_, _)
C7_Follow(array, idx) ==
    IF Len(array) = 1 THEN idx
    ELSE C7_Follow(Tail(array), Head(array).value_offsets[Head(array).offset + idx + 1])

\* C7: for a list array of nesting depth 1 or 2, sliced or not, values_offset is the
\* leaf index the list offsets lead to from the first entry of the slice, num_values
\* is the distance from there to the leaf index they lead to from one past the last
\* entry, and every leaf position that got a leaf-slot entry lies in
\* [values_offset, values_offset + num_values)
C7_ValuesRange ==
    (levels.generated /\ IsNested) =>
        /\ levels.values_offset = C7_Follow(data, 0)
        /\ levels.num_values = C7_Follow(data, data[1].length) - levels.values_offset
        /\ \A k \in 1..Len(levels.leaf_idx) :
             /\ levels.values_offset <= levels.leaf_idx[k]
             /\ levels.leaf_idx[k] < levels.values_offset + levels.num_values

\* a list array sliced at offset 1 whose slice starts at leaf 1 and holds that leaf
C7_Witness ==
    /\ levels.generated /\ Len(data) = 2 /\ data[1].offset = 1
    /\ levels.values_offset = 1 /\ levels.num_values = 1
    /\ levels.leaf_idx = <<1>>

\* the leaf array the materializer is handed: the slice of the leaf
C8_Leaf == Slice(Head(levels.values_array), levels.values_offset, levels.num_values)

\* the leaf types written by the generic TypedWriteBatch
C8_PlainTypes ==
    {"INT8", "UINT8", "INT16", "UINT16", "INT32", "UINT32", "INT64", "UINT64", "FLOAT",
     "DOUBLE", "DATE32", "DATE64", "TIME32", "TIME64", "TIMESTAMP"}

\* the leaf types with a writer of their own
C8_PackedTypes == {"BOOL", "BINARY", "STRING", "FIXED_SIZE_BINARY", "DECIMAL"}

C8_Written == pc = "done" /\ status = "OK" /\ Len(calls) = 1

C8_Dense == writer_.is_required \/ C8_Leaf.null_count = 0

C8_SpacedCall(c) ==
    /\ c.method = "WriteBatchSpaced"
    /\ c.has_valid_bits = C8_Leaf.has_bitmap
    /\ c.valid_bits = C8_Leaf.null_bitmap
    /\ c.valid_bits_offset = C8_Leaf.offset

\* C8 (as amended): a numeric, date, time or timestamp leaf is written with WriteBatch
\* when the schema node is required or the leaf has null_count = 0, and otherwise
\* with WriteBatchSpaced, given the leaf's validity bitmap and offset; a bool,
\* binary, string, fixed-size binary or decimal128 leaf is always written with
\* WriteBatch, which is handed one value per slot when the node is required or the
\* leaf has no nulls (bool excepted) and only the values of the non-null slots otherwise
C8_DenseOrSpaced ==
    C8_Written =>
        /\ C8_Leaf.type \in C8_PlainTypes =>
             IF C8_Dense THEN calls[1].method = "WriteBatch"
             ELSE C8_SpacedCall(calls[1])
        /\ C8_Leaf.type \in C8_PackedTypes =>
             /\ calls[1].method = "WriteBatch"
             /\ ~calls[1].has_valid_bits
             /\ Len(calls[1].values) =
                  IF C8_Dense /\ C8_Leaf.type # "BOOL" THEN C8_Leaf.length
                  ELSE Cardinality({i \in 0..(C8_Leaf.length - 1) : ~IsNull(C8_Leaf, i)})

\* C8 as stated: every supported leaf type is written with WriteBatch when the node is
\* required or the leaf has no nulls, and with WriteBatchSpaced otherwise
C8_AsStated ==
    (C8_Written /\ C8_Leaf.type \in C8_PlainTypes \cup C8_PackedTypes) =>
        IF C8_Dense THEN calls[1].method = "WriteBatch"
        ELSE C8_SpacedCall(calls[1])

\* an optional binary leaf of two slots, one of them null, is written with WriteBatch
\* and one value
C8_Witness ==
    /\ C8_Written /\ C8_Leaf.type = "BINARY" /\ ~C8_Dense
    /\ C8_Leaf.length = 2 /\ C8_Leaf.null_count = 1
    /\ calls[1].method = "WriteBatch" /\ Len(calls[1].values) = 1

\* the leaf types that are numbers
C9_NumericTypes ==
    {"INT8", "UINT8", "INT16", "UINT16", "INT32", "UINT32", "INT64", "UINT64", "FLOAT",
     "DOUBLE"}

C9_SpacedNumeric ==
    /\ C8_Written /\ C8_Leaf.type \in C9_NumericTypes
    /\ calls[1].method = "WriteBatchSpaced"

\* the values of the valid slots of the leaf, in order
C9_PresentValues ==
    LET present == SelectSeq([i \in 1..C8_Leaf.length |-> i - 1],
                             LAMBDA i : IsValidAt(C8_Leaf, i))
    IN  [k \in 1..Len(present) |-> C8_Leaf.values[C8_Leaf.offset + present[k] + 1]]

\* C9 (as amended): when a numeric leaf with nulls is written in spaced mode, the
\* values buffer handed to the underlying writer holds one slot per array position,
\* null slots included, slot i holding what the array stores at position i
C9_SpacedValuesPerSlot ==
    C9_SpacedNumeric =>
        /\ Len(calls[1].values) = C8_Leaf.length
        /\ \A i \in 0..(C8_Leaf.length - 1) :
             calls[1].values[i + 1] = C8_Leaf.values[C8_Leaf.offset + i + 1]

\* C9 as stated: the values buffer holds only the present values, densely packed in
\* order
C9_AsStated ==
    C9_SpacedNumeric => calls[1].values = C9_PresentValues

\* an optional int32 leaf sliced at offset 1 that holds a null, then a value: two
\* slots are handed over, and one value is present
C9_Witness ==
    /\ C9_SpacedNumeric /\ C8_Leaf.type = "INT32" /\ C8_Leaf.offset = 1
    /\ C8_Leaf.length = 2 /\ ~IsValidAt(C8_Leaf, 0) /\ IsValidAt(C8_Leaf, 1)
    /\ Len(calls[1].values) = 2
    /\ Len(C9_PresentValues) = 1

\* the rule of the timestamp policy that applies: the Parquet type, and for a
\* coercion the target unit and whether truncation is allowed
C10_Rule ==
    LET unit == data[1].unit
    IN  IF properties.support_deprecated_int96_timestamps
        THEN [write |-> "Int96Type", coerce |-> FALSE, unit |-> unit, truncate |-> FALSE]
        ELSE IF properties.coerce_timestamps_enabled
        THEN [write |-> "Int64Type",
              coerce |-> unit # properties.coerce_timestamps_unit,
              unit |-> properties.coerce_timestamps_unit,
              truncate |-> properties.truncated_timestamps_allowed]
        ELSE IF writer_.version = "PARQUET_1_0" /\ unit = "NANO"
        THEN [write |-> "Int64Type", coerce |-> TRUE, unit |-> "MICRO", truncate |-> FALSE]
        ELSE IF unit = "SECOND"
        THEN [write |-> "Int64Type", coerce |-> TRUE, unit |-> "MILLI", truncate |-> FALSE]
        ELSE [write |-> "Int64Type", coerce |-> FALSE, unit |-> unit, truncate |-> FALSE]

\* the power of 1000 between two units: positive towards the finer unit
C10_Steps(from, to) == UnitIndex(to) - UnitIndex(from)

RECURSIVE C10_Pow1000(_)
C10_Pow1000(n) == IF n = 0 THEN 1 ELSE 1000 * C10_Pow1000(n - 1)

\* a value of the written slice is valid and not a multiple of the divisor
C10_Loses(divisor) ==
    \E i \in 0..(data[1].length - 1) :
        IsValidAt(data[1], i) /\ data[1].values[i + 1] % divisor # 0

\* C10: WriteTimestamps applies the first rule that matches: Int96 flag set, write
\* Int96; coerce unit set, write int64 unchanged if it is the source unit, else
\* coerce to it under the user's truncation setting; version 1.0 and nanoseconds,
\* coerce to microseconds with truncation disallowed whatever the user's setting;
\* seconds, coerce to milliseconds; otherwise write int64 unchanged
C10_TimestampPolicy ==
    (pc = "done" /\ data[1].type = "TIMESTAMP" /\ data[1].length > 0) =>
        LET rule == C10_Rule
            steps == C10_Steps(data[1].unit, rule.unit)
        IN  /\ dispatch.type = rule.write
            /\ dispatch.fn = IF rule.coerce THEN "WriteTimestampsCoerce"
                             ELSE "TypedWriteBatch"
            /\ rule.coerce =>
                 /\ dispatch.props.coerce_timestamps_unit = rule.unit
                 /\ dispatch.props.truncated_timestamps_allowed = rule.truncate
            /\ IF rule.coerce /\ steps < 0 /\ ~rule.truncate
                  /\ C10_Loses(C10_Pow1000(-steps))
               THEN status = "Invalid" /\ calls = <<>>
               ELSE /\ status = "OK"
                    /\ Len(calls) = 1
                    /\ calls[1].type = rule.write
                    /\ \A i \in 0..(data[1].length - 1) :
                         IsValidAt(data[1], i) =>
                           calls[1].values[i + 1] =
                             IF rule.write = "Int96Type"
                             THEN ImpalaTimestamp(data[1].unit, data[1].values[i + 1])
                             ELSE IF ~rule.coerce THEN data[1].values[i + 1]
                             ELSE IF steps >= 0
                             THEN data[1].values[i + 1] * C10_Pow1000(steps)
                             ELSE TruncDiv(data[1].values[i + 1], C10_Pow1000(-steps))

\* nanoseconds into a version 1.0 file, no Int96 and no coerce unit, the user allowing
\* truncation: a value that is not a whole number of microseconds is refused
C10_Witness ==
    /\ pc = "done" /\ data[1].type = "TIMESTAMP" /\ data[1].unit = "NANO"
    /\ writer_.version = "PARQUET_1_0"
    /\ ~properties.support_deprecated_int96_timestamps
    /\ ~properties.coerce_timestamps_enabled
    /\ properties.truncated_timestamps_allowed
    /\ dispatch.fn = "WriteTimestampsCoerce"
    /\ dispatch.props.coerce_timestamps_unit = "MICRO"
    /\ status = "Invalid"

\* the call went to WriteTimestampsCoerce with a target unit coarser than the source
C11_Divides ==
    /\ pc = "done" /\ dispatch.fn = "WriteTimestampsCoerce"
    /\ C10_Steps(data[1].unit, dispatch.props.coerce_timestamps_unit) < 0

C11_Factor == C10_Pow1000(-C10_Steps(data[1].unit, dispatch.props.coerce_timestamps_unit))

\* C11: a coercion that divides returns Invalid exactly when truncation is disallowed
\* and a non-null value of the array is not a multiple of the factor; what a null
\* slot stores never matters, and with Invalid the column writer got no call
C11_DivideInvalid ==
    C11_Divides =>
        /\ status = "Invalid" <=>
             /\ ~dispatch.props.truncated_timestamps_allowed
             /\ \E i \in 0..(data[1].length - 1) :
                  IsValidAt(data[1], i) /\ data[1].values[i + 1] % C11_Factor # 0
        /\ status = "Invalid" => calls = <<>>
        /\ status # "Invalid" => (status = "OK" /\ Len(calls) = 1)

\* truncation disallowed, a null slot that stores a value that is no multiple of the
\* factor next to a valid multiple: the array is written
C11_Witness ==
    /\ C11_Divides /\ ~dispatch.props.truncated_timestamps_allowed
    /\ data[1].length = 2
    /\ \E i \in 0..1 : ~IsValidAt(data[1], i) /\ data[1].values[i + 1] % C11_Factor # 0
    /\ \E i \in 0..1 : IsValidAt(data[1], i)
    /\ status = "OK" /\ Len(calls) = 1

\* WriteTimestampsCoerce returned OK and handed its buffer to the column writer
C12_Coerced ==
    /\ pc = "done" /\ dispatch.fn = "WriteTimestampsCoerce"
    /\ status = "OK" /\ Len(calls) = 1

C12_SourceSteps == C10_Steps(data[1].unit, dispatch.props.coerce_timestamps_unit)

\* C12 (as amended): for every entry of the coercion table that has an operation: in
\* the multiply case coerce(t) = t * factor for every value t, so coerce(t) / factor
\* = t; in the divide case coerce(t) = t / factor truncated toward zero, so
\* coerce(t) * factor = t for every t the factor divides
C12_CoercionValues ==
    C12_Coerced =>
        \A i \in 1..data[1].length :
            LET t == data[1].values[i]
                v == calls[1].values[i]
            IN  IF C12_SourceSteps >= 0
                THEN /\ v = t * C10_Pow1000(C12_SourceSteps)
                     /\ TruncDiv(v, C10_Pow1000(C12_SourceSteps)) = t
                ELSE /\ v = TruncDiv(t, C10_Pow1000(-C12_SourceSteps))
                     /\ t % C10_Pow1000(-C12_SourceSteps) = 0
                          => v * C10_Pow1000(-C12_SourceSteps) = t

\* C12 as stated: for every value t divisible by the factor, coerce(t) * factor = t in
\* the multiply case and coerce(t) = t / factor in the divide case
C12_AsStated ==
    C12_Coerced =>
        \A i \in 1..data[1].length :
            LET t == data[1].values[i]
                v == calls[1].values[i]
            IN  IF C12_SourceSteps >= 0
                THEN t % C10_Pow1000(C12_SourceSteps) = 0
                       => v * C10_Pow1000(C12_SourceSteps) = t
                ELSE t % C10_Pow1000(-C12_SourceSteps) = 0
                       => v = TruncDiv(t, C10_Pow1000(-C12_SourceSteps))

\* 1000 milliseconds coerced to microseconds are written as 1000000
C12_Witness ==
    /\ C12_Coerced /\ data[1].unit = "MILLI"
    /\ dispatch.props.coerce_timestamps_unit = "MICRO"
    /\ data[1].values[1] = 1000
    /\ calls[1].values[1] = 1000000

\* byte k (0 the least significant) of the two's complement of a decimal that fits
\* in 32 bits: the bytes above the fourth repeat the sign
C13_Byte(d, k) ==
    CASE k >= 4 -> IF d < 0 THEN 255 ELSE 0
      [] k = 3 -> (d \div 16777216) % 256
      [] k = 2 -> (d \div 65536) % 256
      [] k = 1 -> (d \div 256) % 256
      [] OTHER -> d % 256

\* the big-endian two's complement of d in n bytes
C13_BigEndian(d, n) == [k \in 1..n |-> C13_Byte(d, n - k)]

\* C13 as stated: every decimal128 value written, by the no-nulls loop (every slot) or
\* by the skip-nulls loop (the non-null slots), reaches the column writer as the
\* DecimalSize(p) bytes of its big-endian two's complement (123456789 of precision 9
\* as 07 5B CD 15)
C13_AsStated ==
    (pc = "done" /\ Len(data) = 1 /\ data[1].type = "DECIMAL" /\ data[1].length > 0) =>
        /\ status = "OK" /\ Len(calls) = 1
        /\ LET leaf == C8_Leaf
               written == IF C8_Dense THEN AllSlots(leaf) ELSE NonNullSlots(leaf)
           IN  calls[1].values =
                 [k \in 1..Len(written) |->
                     C13_BigEndian(leaf.values[leaf.offset + written[k] + 1],
                                   DecimalSize(leaf.precision))]

\* the rows of the slices handed to Write(const Array&), in order
RECURSIVE C14_Rows(_)
C14_Rows(slices) ==
    IF slices = <<>> THEN <<>>
    ELSE raw_values(Head(Head(slices))) \o C14_Rows(Tail(slices))

C14_Length == ChunkedLength(chunked.chunks)

C14_Supported == \A k \in 1..Len(chunked.chunks) : chunked.chunks[k][1].type = "INT32"

\* the logical rows [offset, offset + size) of the column
C14_Range == [r \in 1..chunked.size |-> chunked.offset + r]

\* C14 (as amended): for a chunked array of a supported type, any number of chunks,
\* empty chunks and offsets on a chunk boundary included, and a range with
\* offset + size <= length: if the array is empty the write succeeds and passes no
\* slice; if offset < length it succeeds and the slices passed to the single-array
\* path, concatenated in order, are the rows [offset, offset + size), each once; if
\* offset = length of a non-empty array (so size = 0) it returns Invalid and passes
\* no slice
C14_ChunkedRows ==
    (pc = "chunked_done" /\ C14_Supported
        /\ chunked.offset + chunked.size <= C14_Length) =>
        IF C14_Length = 0
        THEN status = "OK" /\ chunked.slices = <<>>
        ELSE IF chunked.offset < C14_Length
        THEN status = "OK" /\ C14_Rows(chunked.slices) = C14_Range
        ELSE status = "Invalid" /\ chunked.slices = <<>>

\* C14 as stated: whenever offset + size <= length the chunked write succeeds and the
\* slices it passes on, concatenated in order, are the rows [offset, offset + size)
C14_AsStated ==
    (pc = "chunked_done" /\ C14_Supported
        /\ chunked.offset + chunked.size <= C14_Length) =>
        status = "OK" /\ C14_Rows(chunked.slices) = C14_Range

\* three chunks, the middle one empty; the range starts on the boundary after the
\* first chunk and ends inside the last one
C14_Witness ==
    /\ pc = "chunked_done" /\ C14_Supported /\ status = "OK"
    /\ Len(chunked.chunks) = 3
    /\ chunked.chunks[1][1].length = 1 /\ chunked.chunks[2][1].length = 0
    /\ chunked.chunks[3][1].length = 2
    /\ chunked.offset = 1 /\ chunked.size = 1
    /\ C14_Rows(chunked.slices) = <<2>>
    /\ Len(chunked.slices) = 2

\* C15 (as amended): for a start offset greater than the length of the chunked array,
\* whatever the size, no slice is passed to the single-array path; the call returns
\* Invalid when the array has at least one row, and OK when it is empty
C15_OffsetPastEnd ==
    (pc = "chunked_done" /\ chunked.offset > C14_Length) =>
        /\ chunked.slices = <<>> /\ calls = <<>>
        /\ status = IF C14_Length = 0 THEN "OK" ELSE "Invalid"

\* C15 as stated: for any chunked array, an empty one included, a start offset
\* greater than its length returns Invalid and passes no slice
C15_AsStated ==
    (pc = "chunked_done" /\ chunked.offset > C14_Length) =>
        status = "Invalid" /\ chunked.slices = <<>>

\* a non-empty array of two chunks is refused for an offset past its end
C15_Witness ==
    /\ pc = "chunked_done" /\ status = "Invalid"
    /\ Len(chunked.chunks) = 2 /\ C14_Length = 3
    /\ chunked.offset = 4 /\ chunked.size = 1
    /\ chunked.slices = <<>>

\* the entries of the log that are calls of one kind
C16_Calls(kind) == SelectSeq(file.log, LAMBDA e : e.call = kind)

\* c = min(chunk_size, max_row_group_length)
C16_c == Min(file.chunk_size_arg, file.max_row_group_length)

C16_R == file.table.num_rows

\* ceil(R / c)
C16_Groups == (C16_R + C16_c - 1) \div C16_c

\* WriteTable got past its checks and no row group was opened by another call
C16_Running == file.active /\ file.schema_equal /\ ~file.user_row_group

C16_WitnessEmpty ==
    /\ C16_Running /\ file.result = "OK"
    /\ C16_R = 0 /\ Len(file.table.columns) = 2
    /\ Len(C16_Calls("AppendRowGroup")) = 1
    /\ Len(C16_Calls("ColumnWriter::Close")) = 2

\* the calls that open a row group, obtain a column writer or close one, in order
C17_Calls ==
    SelectSeq(file.log,
              LAMBDA e : e.call \in {"AppendRowGroup", "NextColumn", "ColumnWriter::Close"})

\* the p-th of those calls when row groups of N columns are written one after the
\* other, every one in schema order
C17_Expected(p, N) ==
    LET k == ((p - 1) \div (1 + 2 * N)) + 1
        q == (p - 1) % (1 + 2 * N)
    IN  IF q = 0 THEN <<"AppendRowGroup", k, 0>>
        ELSE IF q % 2 = 1 THEN <<"NextColumn", k, (q - 1) \div 2>>
        ELSE <<"ColumnWriter::Close", k, (q - 2) \div 2>>

\* C17: while WriteTable writes a table of N columns, the calls on the underlying
\* writers are, row group after row group, AppendRowGroup followed for
\* i = 0, 1, ..., N-1 by NextColumn returning the writer of column i, made by the
\* WriteColumnChunk of table column i, and the close of that writer; a WriteTable
\* that returns OK has written every column of every row group it opened
C17_SchemaOrder ==
    LET L == C17_Calls
        N == Len(file.table.columns)
    IN  C16_Running =>
          /\ \A p \in 1..Len(L) :
                /\ <<L[p].call, L[p].row_group, L[p].column>> = C17_Expected(p, N)
                /\ L[p].call # "AppendRowGroup" => L[p].i = L[p].column
          /\ file.result = "OK" =>
                Len(L) = Len(C16_Calls("AppendRowGroup")) * (1 + 2 * N)

\* two row groups of two columns written to the end
C17_Witness ==
    /\ C16_Running /\ file.result = "OK"
    /\ Len(file.table.columns) = 2
    /\ Len(C17_Calls) = 10
    /\ C17_Calls[9].call = "NextColumn" /\ C17_Calls[9].row_group = 2
    /\ C17_Calls[9].column = 1

\* C18 as stated: whatever the type of a column, the writer of the column has been
\* given exactly size rows when it is closed, size being the size of the row group
C18_AsStated ==
    \A p \in 1..Len(file.log) :
        file.log[p].call = "ColumnWriter::Close" => file.log[p].rows = file.log[p].size

\* the same for every column that is not a dictionary of nulls
C18_OtherColumns ==
    \A p \in 1..Len(file.log) :
        (/\ file.log[p].call = "ColumnWriter::Close"
         /\ At(file.table.columns, file.log[p].i).value_type # "NA")
            => file.log[p].rows = file.log[p].size

\* C19: every call of Close after the first one, whoever made it and whatever the
\* first one returned, returns OK and makes no call on the underlying row-group
\* writer or file writer
C19_CloseIdempotent ==
    \A j \in 2..Len(file.closes) :
        file.closes[j].status = "OK" /\ file.closes[j].calls = 0

\* the first Close failed while closing the open row group, a row group was asked
\* for afterwards, and Close was called twice more
C19_Witness ==
    /\ Len(file.closes) = 3
    /\ file.closes[1].status = "IOError" /\ file.closes[1].calls = 1
    /\ file.user_row_group
    /\ file.closes[3].status = "OK" /\ file.closes[3].calls = 0

\* WriteTable has returned after a step of WriteRowGroup failed, and nothing was
\* called since
C20_Failed ==
    /\ pc = "idle" /\ file.error # "none"
    /\ file.user_closes = 0 /\ ~file.user_row_group

\* C20: when opening a row group or writing a column fails, WriteTable calls Close
\* once, whose own status it drops, makes no call on the underlying writers after
\* the failed step but those of that Close, and returns the status of the failed
\* step; the writer is closed from then on
C20_FailureCloses ==
    /\ C20_Failed =>
          /\ Len(file.closes) = 1
          /\ file.result = file.error
          /\ Len(file.log) - file.failed_at = file.closes[1].calls
          /\ \A p \in (file.failed_at + 1)..Len(file.log) :
                file.log[p].call \in {"RowGroupWriter::Close", "ParquetFileWriter::Close"}
    /\ (pc = "idle" /\ file.error # "none") => file.closed_

\* the second column of the first row group is of a type Write does not support;
\* the Close made by WriteTable fails too, and WriteTable returns NotImplemented
C20_Witness ==
    /\ C20_Failed
    /\ file.error = "NotImplemented" /\ file.result = "NotImplemented"
    /\ file.i = 1 /\ file.closes[1].status = "IOError" /\ file.closed_

\* WriteTable was called with a chunk_size <= 0 for a table that has rows, or with a
\* table whose schema is not the writer's, and nothing was called since
C21_Misuse ==
    /\ file.active /\ file.user_closes = 0 /\ ~file.user_row_group
    /\ \/ file.chunk_size_arg <= 0 /\ file.table.num_rows >= 1
       \/ ~file.schema_equal

\* C21: WriteTable returns Invalid when chunk_size <= 0 and the table has at least
\* one row, and when the schema of the table is not the writer's; no row group is
\* opened, no column is written, and the members of the writer are as they were:
\* not closed, no row-group writer
C21_InvalidArguments ==
    C21_Misuse =>
        /\ pc \in {"table", "idle"}
        /\ pc = "idle" => file.result = "Invalid"
        /\ file.log = <<>> /\ file.closes = <<>>
        /\ ~file.closed_ /\ file.row_group_writer_ = 0 /\ file.num_row_groups = 0
        /\ calls = <<>> /\ ~chunked.active

\* WriteTable has refused a table of another schema, the chunk_size being positive
C21_Witness ==
    /\ C21_Misuse /\ pc = "idle" /\ file.result = "Invalid"
    /\ ~file.schema_equal /\ file.chunk_size_arg >= 1
    /\ file.table.num_rows >= 1

\* the type of the array has a nested branch with more than one child
RECURSIVE C22_MultiChild(_)
C22_MultiChild(array) ==
    /\ array # <<>>
    /\ \/ Head(array).type \in {"LIST", "STRUCT"} /\ Head(array).num_children > 1
       \/ C22_MultiChild(Tail(array))

\* Write has returned for a non-empty array of such a type
C22_Case == pc = "done" /\ Head(data).length > 0 /\ C22_MultiChild(data)

\* C22 (as amended): writing a non-empty array whose type has a nested branch with
\* more than one child fails with an Invalid error, no level is generated and
\* nothing is passed to the underlying column writer
C22_MultiChildInvalid ==
    C22_Case => status = "Invalid" /\ calls = <<>> /\ ~levels.generated

\* C22 as stated: the write fails with a NotImplemented error and nothing is passed
\* to the underlying column writer
C22_AsStated ==
    C22_Case => status = "NotImplemented" /\ calls = <<>>

\* a list of one entry whose values are a struct of two fields has been refused
C22_Witness ==
    /\ C22_Case /\ status = "Invalid" /\ calls = <<>>
    /\ Len(data) = 3 /\ data[1].type = "LIST" /\ data[2].type = "STRUCT"
    /\ data[2].num_children = 2 /\ data[2].length = 2

\* the slices of positive length: Write(const Array&) returns at once for the others
C23_Slices == SelectSeq(chunked.slices, LAMBDA a : Head(a).length > 0)

\* the rows of the range arrow_writer.Write was called with
RECURSIVE C23_AllRows(_)
C23_AllRows(chunks) ==
    IF chunks = <<>> THEN <<>>
    ELSE raw_values(Head(Head(chunks))) \o C23_AllRows(Tail(chunks))

C23_Range ==
    SubSeq(C23_AllRows(chunked.chunks), chunked.offset + 1, chunked.offset + chunked.size)

\* the entries of the log made on the open row group
C23_InRowGroup(kind) ==
    SelectSeq(file.log,
              LAMBDA e : e.call = kind /\ e.row_group = file.row_group_writer_)

\* a WriteColumnChunk of WriteTable has just returned OK
C23_Returned == pc = "column_loop" /\ file.i >= 1 /\ ~file.user_row_group

C25_AsStated ==
    (\E j \in 1..Len(file.closes) : file.closes[j].status = "OK") =>
        \E p \in 1..Len(file.log) : file.log[p].call = "ParquetFileWriter::Close"

\* the same when the first call of Close is the one that returned OK
C25_FirstClose ==
    (file.closes # <<>> /\ file.closes[1].status = "OK") =>
        \E p \in 1..Len(file.log) : file.log[p].call = "ParquetFileWriter::Close"

\* the positions of the log at which a row group is appended
C24_Appends == {p \in 1..Len(file.log) : file.log[p].call = "AppendRowGroup"}

\* C24: in any sequence of NewRowGroup and WriteTable calls (and of Close calls),
\* every AppendRowGroup made while the writer holds a row-group writer comes right
\* after the Close of that row-group writer; the row groups are numbered in the
\* order of the calls; and at most one row group is open at any time, namely the one
\* the writer holds, so that no row group is appended when the Close of the previous
\* one has failed
C24_OneOpenRowGroup ==
    /\ \A p \in C24_Appends :
          file.log[p].row_group >= 2 =>
              /\ p >= 2
              /\ file.log[p - 1].call = "RowGroupWriter::Close"
              /\ file.log[p - 1].row_group = file.log[p].row_group - 1
    /\ \A p, q \in C24_Appends : p < q => file.log[p].row_group <= file.log[q].row_group
    /\ file.open \subseteq {file.row_group_writer_}
    /\ Cardinality(file.open) <= 1

\* NewRowGroup was called, then WriteTable wrote its second row group: the third
\* row group is the only one open
C24_Witness ==
    /\ file.row_group_calls >= 1 /\ file.table_calls = 1 /\ ~file.closed_
    /\ file.log[1].call = "AppendRowGroup" /\ file.log[1].i = 0
    /\ Cardinality(C24_Appends) = 3
    /\ file.open = {3} /\ pc = "column_loop"

\* C28 as stated: once Close has been called, by the user or by WriteTable after a
\* failure, no later call makes any call on the underlying row-group writer or file
\* writer: the log of those calls stays as the first Close left it
C28_AsStated ==
    file.closes # <<>> => Len(file.log) = file.closes[1].log_len

\* C27 as stated: for a chunked array that has rows, an offset below its length and
\* any size, also one that reaches past the end, the second loop never calls
\* data.chunk with an index that is not below num_chunks
C27_AsStated ==
    (C14_Length > 0 /\ chunked.offset < C14_Length) => ~chunked.overrun

\* the same for the ranges that end inside the array
C27_InRange ==
    (C14_Length > 0 /\ chunked.offset + chunked.size <= C14_Length) => ~chunked.overrun

\* C26 as stated: for a list array with non-decreasing offsets, a null entry of
\* which may span a non-empty range of offsets, the levels generated are at least as
\* many as the leaf values of the slice
C26_AsStated ==
    (levels.generated /\ Len(data) >= 2) => levels.num_levels >= levels.num_values

====
